---- MODULE Spec2Model ----
(***************************************************************************)
(* A model of the fintech_news_scraper package: the per-domain rate        *)
(* limiter and the retrying fetch client (http.py), the merge and fair     *)
(* capping stage of the pipeline (pipeline.py), the TF-IDF vectorizer and  *)
(* the dedup engine (vectorize.py, dedup.py) and the per-source storage    *)
(* upsert (storage.py).                                                    *)
(*                                                                         *)
(* The module holds several specifications over one set of variables; a    *)
(* specification leaves the variables of the other parts at their idle     *)
(* values.                                                                 *)
(*   Spec       the fetch tasks of one cycle: get_text over one            *)
(*              DomainRateLimiter and one semaphore                        *)
(*   SpecRR     _round_robin_by_source applied to the candidate lists      *)
(*              run_pipeline caps                                          *)
(*   SpecCycle  run_pipeline from the feed stubs to the list it scrapes    *)
(*   SpecDedup  one call of dedup_against_recent                           *)
(*   SpecStore  the upserts into one source's CSV file                     *)
(*   SpecUrl    _strip_fragment_and_tracking_params on a URL, twice        *)
(*   SpecDiscover  one call of discover_links_from_html                    *)
(*   SpecFit    fit_tfidf on a corpus, twice                               *)
(*   SpecRun    one call of run_pipeline, its failures included            *)
(*   SpecPersist  upsert_file called by cycles that run at the same time   *)
(*   SpecGui    a polling loop and _drain_queue over the rolling window    *)
(*   SpecLoop   run_pipeline from the recent window to its return value    *)
(***************************************************************************)
EXTENDS Integers, Sequences, FiniteSets, TLC

VARIABLES
    \* ---- http.py: DomainRateLimiter ----
    domain_locks,   \* _domain_locks: domain -> 0 (free) or the task holding it
    domain_times,   \* _domain_times: domain -> list of admissions, each kept as
                    \* its age loop.time() - timestamp (ages above the period
                    \* are all kept as PeriodSeconds + 1)
    \* ---- http.py: HttpClient.get_text, one frame per task ----
    human_delay,    \* _human_delay: <<>> (None) or <<lo, hi>>
    url,            \* the url argument of each task's get_text call
    pc,             \* position of each task in get_text / acquire
    attempt,        \* the loop variable of get_text
    sleep_left,     \* what is left of the task's running asyncio.sleep
    sem,            \* the free slots of _sem
    \* ---- the observed calls: return value and history ----
    result,         \* how get_text ended: "pending", "None", a body, or
                    \* "raised" for an exception it let through
    resp,           \* the response of the task's GET, from its arrival until
                    \* the task issues its next GET
    admissions,     \* number of admissions the limiter recorded for the task
    gets,           \* number of GETs the task issued
    transients,     \* number of attempts that ended in a transient failure
    sleeps,         \* number of backoff sleeps the task started
    \* ---- pipeline.py: run_pipeline, candidate merge and fair capping ----
    max_items,              \* the max_items argument
    max_articles_per_run,   \* crawl.max_articles_per_run of the config: <<n>>,
                            \* or <<>> when the config does not set it
    skip_urls,              \* the skip_urls argument
    rss_articles,           \* the stubs the feed pulls returned
    discovered_articles,    \* the stubs the crawl tasks appended
    merged,                 \* the interleaved, de-duplicated candidates
    hard_cap,               \* the local hard_cap (NoCap for None)
    capped,                 \* merged after the hard cap
    to_scrape,              \* merged as handed to the scrape workers
    cycle_pc,               \* position of run_pipeline
    \* ---- pipeline.py: one call of _round_robin_by_source ----
    rr_items, rr_limit, rr_out, rr_pc,
    \* ---- dedup.py: one call of dedup_against_recent ----
    candidate_text, candidate_url, recent_texts, recent_urls, threshold,
    model,          \* the local model: the fitted TfidfModel
    X,              \* the local X: the rows of the transformed batch
    dedup_result,   \* the DedupResult returned
    dedup_pc,
    \* ---- storage.py: one source's file ----
    csv_file,       \* the CSV file: <<>> while it does not exist, else <<rows>>
    last_write,     \* per url: how often it was written (up to 2) and the
                    \* title of its most recent write
    store_pc,
    \* ---- discover.py: _strip_fragment_and_tracking_params ----
    norm_url,       \* the url argument
    norm_once,      \* its result
    norm_twice,     \* the result of the call on norm_once
    norm_pc,
    \* ---- discover.py: one call of discover_links_from_html ----
    seed_url,       \* the seed_url argument
    anchors,        \* soup.find_all("a", href=True) on the html argument
    options,        \* max_links, scan_limit, allow_regex, deny_regex,
                    \* same_domain_only
    scanned, candidates, seen,
    links,          \* the list returned
    disc_pc,
    \* ---- vectorize.py: fit_tfidf, twice ----
    corpus,         \* the texts argument
    fit_args,       \* max_features, ngram_range, min_df
    first_fit, second_fit,   \* the vocab of the models returned
    fit_pc,
    \* ---- pipeline.py: one call of run_pipeline ----
    source_group,   \* the source_group argument
    missing_key,    \* the key cfg.raw lacks, "" when it lacks none
    min_text_chars, \* the local variable of line 277, 0 before it is set
    run_pc,
    net,            \* the feeds, seed pages and articles requested so far
    feed_idx,       \* the feeds pulled so far
    run_rss, run_discovered,     \* rss_articles, discovered_articles
    crawl_pending, run_merged, scrape_pending,
    scraped,
    failures,       \* the steps that failed
    fetched_of,     \* what get_text gave the worker of each url
    raised,         \* the exception that left run_pipeline
    run_out,         \* the list returned
    \* ---- storage.py: upsert_file called by cycles that run at the same time ----
    shared_file,    \* the CSV file of one source id
    file_before,    \* the file before the cycles started
    up_group,       \* cycle -> the rows of the source in the cycle's df_new
    up_old,         \* cycle -> old_df of the cycle's upsert_file call
    up_pc,           \* cycle -> "persist", "read" (old_df is read), "done"
    \* ---- gui_app.py: the rolling window, the queue and one polling loop ----
    gui_recent_texts,   \* NewsApp._recent_texts
    gui_recent_urls,    \* NewsApp._recent_urls
    gui_q,              \* NewsApp._q: the batches put and not yet drained
    drain_pc,           \* _drain_queue: "idle", "append" (lines 874-878),
                        \* "truncate" (lines 879-883)
    drain_batch,        \* the batch _drain_queue is working on
    drain_i,            \* the article of the batch the second loop is at
    snap_texts,         \* the value of the loop's _snapshot_recent_texts() call
    snap_urls,          \* the value of the loop's _snapshot_recent_urls() call
    poll_pc,            \* the polling loop: "idle", "texts" (the first snapshot
                        \* is taken), "cycle" (run_pipeline is running)
    polls,               \* number of cycles the loop has started
    \* ---- pipeline.py: run_pipeline, the dedup loop and the persistence ----
    persist,            \* the persist argument
    given_texts,        \* the recent_texts argument
    given_urls,         \* the recent_urls argument
    data_dir,           \* source id -> the rows of news_<sid>.csv, <<>> when
                        \* the file does not exist
    dir_before,         \* data_dir when the cycle started
    similarity_threshold,   \* dedup.similarity_threshold of the configuration
    enriched,           \* the enriched articles (lines 296-304)
    use_recent_texts,   \* the local use_recent_texts
    use_recent_urls,    \* the local use_recent_urls
    deduped,            \* the local deduped
    files_read,         \* the source ids whose file the cycle has read
    files_written,      \* the source ids whose file the cycle has written
    loop_pc,            \* "window" (line 308), "loop" (line 338), "returned",
                        \* "raised"
    loop_out            \* the value run_pipeline returned

httpVars == <<domain_locks, domain_times, human_delay, url, pc, attempt,
              sleep_left, sem, result, resp, admissions, gets,
              transients, sleeps>>

cycleVars == <<max_items, max_articles_per_run, skip_urls, rss_articles,
               discovered_articles, merged, hard_cap, capped, to_scrape,
               cycle_pc>>

rrVars == <<rr_items, rr_limit, rr_out, rr_pc>>

dedupVars == <<candidate_text, candidate_url, recent_texts, recent_urls,
               threshold, model, X, dedup_result, dedup_pc>>

storeVars == <<csv_file, last_write, store_pc>>

urlVars == <<norm_url, norm_once, norm_twice, norm_pc>>

discVars == <<seed_url, anchors, options, scanned, candidates, seen, links,
              disc_pc>>

fitVars == <<corpus, fit_args, first_fit, second_fit, fit_pc>>

runVars == <<source_group, missing_key, min_text_chars, run_pc, net,
             feed_idx, run_rss, run_discovered, crawl_pending, run_merged,
             scrape_pending, scraped, failures, fetched_of, raised, run_out>>

persistVars == <<shared_file, file_before, up_group, up_old, up_pc>>

guiVars == <<gui_recent_texts, gui_recent_urls, gui_q, drain_pc, drain_batch,
            drain_i, snap_texts, snap_urls, poll_pc, polls>>

loopVars == <<persist, given_texts, given_urls, data_dir, dir_before,
             similarity_threshold, enriched, use_recent_texts, use_recent_urls,
             deduped, files_read, files_written, loop_pc, loop_out>>

vars == <<httpVars, rrVars, cycleVars, dedupVars, storeVars, urlVars,
        discVars, fitVars, runVars, persistVars, guiVars, loopVars>>

(***************************************************************************)
(* Small helpers.                                                          *)
(***************************************************************************)
Min(a, b) == IF a <= b THEN a ELSE b

Max(a, b) == IF a >= b THEN a ELSE b

RECURSIVE Pow2(_)
Pow2(n) == IF n <= 0 THEN 1 ELSE 2 * Pow2(n - 1)

(***************************************************************************)
(* Bounds of the fetch model.                                              *)
(***************************************************************************)
NumTasks == 2

Tasks == 1..NumTasks

\* The calls whose history and return value are recorded; the other tasks
\* of the cycle only compete with them for the limiter and the semaphore.
Observed == {1}

Note(f, t, v) == IF t \in Observed THEN [f EXCEPT ![t] = v] ELSE f

(***************************************************************************)
(* The configuration of one cycle (pipeline.py reads it from the yaml).    *)
(* Times are whole seconds.                                                *)
(***************************************************************************)
MaxRequestsPerPeriod == 1

PeriodSeconds == 1

MaxInFlight == 1

MaxAttempts == 3

BaseDelaySeconds == 1

MaxDelaySeconds == 2

RetryStatuses == {429, 503}

HumanDelayRange == <<0, 1>>

(***************************************************************************)
(* URLs: a host as written and a path.  urlparse(url).netloc.lower() is    *)
(* the limiter's key.                                                      *)
(***************************************************************************)
Urls == { [host |-> "a.com", path |-> "/1"],
          [host |-> "A.com", path |-> "/2"],
          [host |-> "b.com", path |-> "/1"] }

\* tasks and domains are interchangeable: the first task's url is fixed
FirstUrl == [host |-> "a.com", path |-> "/1"]

Lower(host) == IF host = "A.com" THEN "a.com" ELSE host

DomainOf(u) == Lower(u.host)

Domains == { DomainOf(u) : u \in Urls }

(***************************************************************************)
(* What one GET can end in: a response with a status and a body, or an     *)
(* exception raised by the session: aiohttp.ClientError,                   *)
(* asyncio.TimeoutError, or ("Exception") one that is neither.             *)
(***************************************************************************)
Statuses == {200, 404, 503}

Bodies == {"body1", "body2"}

ErrorPage == "error page"

NoResp == [err |-> "none", status |-> 0, body |-> ""]

Responses ==
    { [err |-> "none", status |-> 200, body |-> b] : b \in Bodies }
    \cup { [err |-> "none", status |-> s, body |-> ErrorPage] : s \in Statuses \ {200} }
    \cup { [err |-> e, status |-> 0, body |-> ""] :
              e \in {"ClientError", "TimeoutError", "Exception"} }

\* (every error status taken as retryable)
RetryableStatus_AnyError(r) ==
    r.err = "none" /\ (r.status \in RetryStatuses \/ r.status >= 400)

\* if status in self._retry.retry_statuses: raise aiohttp.ClientResponseError
RetryableStatus(r) == r.err = "none" /\ r.status \in RetryStatuses

\* except (aiohttp.ClientError, asyncio.TimeoutError): what the clause catches
\* (ClientResponseError is a ClientError)
IsTransient(r) == r.err \in {"ClientError", "TimeoutError"} \/ RetryableStatus(r)

\* an exception the except clause does not catch leaves get_text
Propagates(r) == r.err # "none" /\ ~IsTransient(r)

\* if status >= 400: return None
IsTerminal(r) == r.err = "none" /\ ~RetryableStatus(r) /\ r.status >= 400

IsSuccess(r) == r.err = "none" /\ ~RetryableStatus(r) /\ r.status < 400 /\ r # NoResp

(***************************************************************************)
(* DomainRateLimiter.acquire                                               *)
(***************************************************************************)
\* (no timestamp is ever dropped)
PopExpired_Never(times) == times

\* cutoff = now - period; while times and times[0] < cutoff: times.pop(0)
\* (times[0] < now - period is: the age of times[0] is above the period)
RECURSIVE PopExpired(_)
PopExpired(times) ==
    IF times # <<>> /\ Head(times) > PeriodSeconds
    THEN PopExpired(Tail(times))
    ELSE times

\* (one lock for all the domains)
LockFree_Global(d) == \A e \in Domains : domain_locks[e] = 0

\* `async with lock` waits while another caller holds the lock
LockFree(d) == domain_locks[d] = 0

\* (the comparison off by one)
HasRoom_OffByOne(times) == Len(times) <= MaxRequestsPerPeriod

\* if len(times) < self._max
HasRoom(times) == Len(times) < MaxRequestsPerPeriod

\* async with lock: now = loop.time(); drop the expired timestamps; then
\* either the caller is let through to times.append(now), or it computes
\* wait_for = (times[0] + period) - now, leaves the lock and sleeps
RLCheck(t) ==
    LET d == DomainOf(url[t])
        times == PopExpired(domain_times[d])
    IN  /\ pc[t] = "lock"
        /\ LockFree(d)
        /\ domain_times' = [domain_times EXCEPT ![d] = times]
        /\ IF HasRoom(times)
           THEN /\ domain_locks' = [domain_locks EXCEPT ![d] = t]
                /\ pc' = [pc EXCEPT ![t] = "record"]
                /\ UNCHANGED sleep_left
           ELSE /\ times # <<>>
                /\ sleep_left' = [sleep_left EXCEPT ![t] =
                                     Max(0, PeriodSeconds - Head(times))]
                /\ pc' = [pc EXCEPT ![t] = "rl_sleep"]
                /\ UNCHANGED domain_locks
        /\ UNCHANGED <<human_delay, url, attempt, sem, result, resp,
                       admissions, gets, transients, sleeps>>

\* times.append(now); return (the lock is released on the way out); get_text
\* goes on to the pacing sleep, if one is configured
RLRecord(t) ==
    LET d == DomainOf(url[t])
    IN  /\ pc[t] = "record"
        /\ domain_times' = [domain_times EXCEPT ![d] = Append(@, 0)]
        /\ domain_locks' = [domain_locks EXCEPT ![d] = 0]
        /\ admissions' = Note(admissions, t, admissions[t] + 1)
        /\ IF human_delay = <<>>
           THEN /\ pc' = [pc EXCEPT ![t] = "sem"]
                /\ UNCHANGED sleep_left
           ELSE \* await asyncio.sleep(random.uniform(lo, hi))
                /\ \E d2 \in human_delay[1]..human_delay[2] :
                       sleep_left' = [sleep_left EXCEPT ![t] = d2]
                /\ pc' = [pc EXCEPT ![t] = "pacing"]
        /\ UNCHANGED <<human_delay, url, attempt, sem, result, resp, gets,
                       transients, sleeps>>

\* await asyncio.sleep(max(0.0, wait_for)) is over: back to the top of the loop
RLWake(t) ==
    /\ pc[t] = "rl_sleep"
    /\ sleep_left[t] = 0
    /\ pc' = [pc EXCEPT ![t] = "lock"]
    /\ UNCHANGED <<domain_locks, domain_times, human_delay, url, attempt,
                   sleep_left, sem, result, resp, admissions,
                   gets, transients, sleeps>>

(***************************************************************************)
(* HttpClient.get_text                                                     *)
(***************************************************************************)
\* (a retry that goes straight to the semaphore)
LoopHead_SkipLimiter(a) == IF a <= MaxAttempts THEN "sem" ELSE "done"

\* for attempt in range(1, max_attempts + 1): the body runs for attempt a,
\* or the loop is over and get_text falls through to its last `return None`
LoopHead(a) == IF a <= MaxAttempts THEN "lock" ELSE "done"

\* the pacing sleep is over
HumanWake(t) ==
    /\ pc[t] = "pacing"
    /\ sleep_left[t] = 0
    /\ pc' = [pc EXCEPT ![t] = "sem"]
    /\ UNCHANGED <<domain_locks, domain_times, human_delay, url, attempt,
                   sleep_left, sem, result, resp, admissions,
                   gets, transients, sleeps>>

\* (a semaphore that never makes a caller wait)
SemFree_NoWait == sem > 0 - NumTasks

\* `async with self._sem` waits while no slot is free
SemFree == sem > 0

\* async with self._sem: a slot is taken and session.get(url) is issued
SemAcquire(t) ==
    /\ pc[t] = "sem"
    /\ SemFree
    /\ sem' = sem - 1
    /\ gets' = Note(gets, t, gets[t] + 1)
    /\ resp' = Note(resp, t, NoResp)
    /\ pc' = [pc EXCEPT ![t] = "get"]
    /\ UNCHANGED <<domain_locks, domain_times, human_delay, url, attempt,
                   sleep_left, result, admissions, transients,
                   sleeps>>

\* delay = min(max_delay, base_delay * 2 ** (attempt - 1))
BackoffDelay(a) == Min(MaxDelaySeconds, BaseDelaySeconds * Pow2(a - 1))

\* delay *= random.uniform(0.7, 1.3), in whole seconds
Jittered(delay) == ((7 * delay) \div 10)..((13 * delay + 9) \div 10)

\* (the comparison off by one)
LastAttempt_Late(a) == a > MaxAttempts

\* if attempt >= self._retry.max_attempts: return None
LastAttempt(a) == a >= MaxAttempts

\* (the status test inverted)
Returned_Inverted(r) ==
    IF r.err # "none" /\ r.err \notin {"ClientError", "TimeoutError"} THEN "raised"
    ELSE IF r.status < 400 THEN "None" ELSE r.body

\* if status >= 400: return None
\* return await r.text(errors="ignore")
\* (and what is not caught is raised to the caller)
Returned(r) ==
    IF Propagates(r) THEN "raised"
    ELSE IF r.status >= 400 THEN "None" ELSE r.body

\* (the slot given back before the backoff sleep)
SlotsInBackoff_Released(slots) == slots + 1

\* the except clause, and with it `await asyncio.sleep(delay)`, is inside the
\* `async with self._sem` block: the slot of the attempt stays taken while
\* the task sleeps, the free slots are as many as during the GET
SlotsInBackoff(slots) == slots

\* the GET of the attempt ends with r
Response(t, r) ==
    /\ pc[t] = "get"
    /\ resp' = Note(resp, t, r)
    /\ IF IsTransient(r)
       THEN \* except (aiohttp.ClientError, asyncio.TimeoutError):
            /\ transients' = Note(transients, t, transients[t] + 1)
            /\ IF LastAttempt(attempt[t])
               THEN /\ result' = Note(result, t, "None")
                    /\ sem' = sem + 1
                    /\ pc' = [pc EXCEPT ![t] = "done"]
                    /\ attempt' = [attempt EXCEPT ![t] = 0]
                    /\ UNCHANGED <<sleep_left, sleeps>>
               ELSE /\ \E d \in Jittered(BackoffDelay(attempt[t])) :
                           sleep_left' = [sleep_left EXCEPT ![t] = d]
                    /\ sleeps' = Note(sleeps, t, sleeps[t] + 1)
                    /\ pc' = [pc EXCEPT ![t] = "backoff"]
                    /\ sem' = SlotsInBackoff(sem)
                    /\ UNCHANGED <<result, attempt>>
       ELSE /\ result' = Note(result, t, Returned(r))
            /\ sem' = sem + 1
            /\ pc' = [pc EXCEPT ![t] = "done"]
            /\ attempt' = [attempt EXCEPT ![t] = 0]
            /\ UNCHANGED <<sleep_left, sleeps, transients>>
    /\ UNCHANGED <<domain_locks, domain_times, human_delay, url, admissions,
                   gets>>

\* await asyncio.sleep(delay) is over: the `async with self._sem` block is left
\* and the loop goes to the next attempt
BackoffWake(t) ==
    /\ pc[t] = "backoff"
    /\ sleep_left[t] = 0
    /\ sem' = sem + 1
    /\ pc' = [pc EXCEPT ![t] = LoopHead(attempt[t] + 1)]
    /\ IF LoopHead(attempt[t] + 1) = "done"
       THEN /\ result' = Note(result, t, "None")
            /\ attempt' = [attempt EXCEPT ![t] = 0]
       ELSE /\ attempt' = [attempt EXCEPT ![t] = @ + 1]
            /\ UNCHANGED result
    /\ UNCHANGED <<domain_locks, domain_times, human_delay, url, sleep_left,
                   resp, admissions, gets, transients, sleeps>>

\* one second passes on the clock of the event loop: every recorded admission
\* gets one second older, every running sleep has one second less to go.
\* acquire has no suspension point between its reading of loop.time() and
\* times.append(now): no time passes while a caller is there.
Tick ==
    /\ \A t \in Tasks : pc[t] # "record"
    /\ domain_times' = [d \in Domains |->
           [i \in 1..Len(domain_times[d]) |->
               Min(domain_times[d][i] + 1, PeriodSeconds + 1)]]
    /\ sleep_left' = [t \in Tasks |-> Max(0, sleep_left[t] - 1)]
    /\ UNCHANGED <<domain_locks, human_delay, url, pc, attempt, sem, result,
                   resp, admissions, gets, transients, sleeps>>

HttpInit ==
    /\ domain_locks = [d \in Domains |-> 0]
    /\ domain_times = [d \in Domains |-> <<>>]
    /\ human_delay \in {<<>>, HumanDelayRange}
    /\ url \in [Tasks -> Urls]
    /\ url[1] = FirstUrl
    /\ pc = [t \in Tasks |-> LoopHead(1)]
    /\ attempt = [t \in Tasks |-> IF LoopHead(1) = "done" THEN 0 ELSE 1]
    /\ sleep_left = [t \in Tasks |-> 0]
    /\ sem = MaxInFlight
    /\ result = [t \in Tasks |-> IF LoopHead(1) = "done" THEN "None" ELSE "pending"]
    /\ resp = [t \in Tasks |-> NoResp]
    /\ admissions = [t \in Tasks |-> 0]
    /\ gets = [t \in Tasks |-> 0]
    /\ transients = [t \in Tasks |-> 0]
    /\ sleeps = [t \in Tasks |-> 0]

\* the fetch tasks while another part of the package is looked at
HttpIdle ==
    /\ domain_locks = <<>>
    /\ domain_times = <<>>
    /\ human_delay = <<>>
    /\ url = <<>>
    /\ pc = <<>>
    /\ attempt = <<>>
    /\ sleep_left = <<>>
    /\ sem = 0
    /\ result = <<>>
    /\ resp = <<>>
    /\ admissions = <<>>
    /\ gets = <<>>
    /\ transients = <<>>
    /\ sleeps = <<>>

(***************************************************************************)
(* pipeline.py: the candidates of one cycle.  A stub is a source id and a  *)
(* url; urls are numbered, 0 is the empty url.                             *)
(***************************************************************************)
Sources == {"a", "b", "c"}

Stub(s, u) == [source |-> s, url |-> u]

\* crawl_cfg.get("max_articles_per_run", 120)
DefaultMaxArticlesPerRun == 120

\* hard_cap = None
NoCap == 0 - 1

\* seen = set(); for a in items: if a.url in seen: continue;
\* seen.add(a.url); out.append(a): an item stays when no earlier item has
\* its url
UniqueByUrl(items) ==
    LET indexed == [i \in 1..Len(items) |-> <<i, items[i]>>]
        first == SelectSeq(indexed,
                     LAMBDA p : \A j \in 1..(p[1] - 1) : items[j].url # p[2].url)
    IN  [k \in 1..Len(first) |-> first[k][2]]

\* (no url is ever skipped)
RemoveSkipped_Never(items, skip) == items

\* [a for a in items if a.url not in skip_urls], under `if skip_urls:`
RemoveSkipped(items, skip) ==
    IF skip = {} THEN items
    ELSE SelectSeq(items, LAMBDA a : a.url \notin skip)

\* _interleave: one of a, one of b, until both are used up: the two lists
\* alternate as long as both last, then the rest of the longer one follows
_interleave(a, b) ==
    LET m == Min(Len(a), Len(b))
    IN  [k \in 1..(2 * m) |-> IF k % 2 = 1 THEN a[(k + 1) \div 2] ELSE b[k \div 2]]
        \o SubSeq(a, m + 1, Len(a)) \o SubSeq(b, m + 1, Len(b))

\* for a in all_candidates: if not a.url: continue; if a.url in seen2: ...
MergeCandidates(unique, discovered) ==
    UniqueByUrl(SelectSeq(_interleave(unique, discovered), LAMBDA a : a.url # 0))

\* order: the source ids of items, each once, first seen first
RECURSIVE SourceOrder(_, _)
SourceOrder(items, sids) ==
    IF items = <<>> THEN <<>>
    ELSE IF Head(items).source \in sids THEN SourceOrder(Tail(items), sids)
    ELSE <<Head(items).source>>
         \o SourceOrder(Tail(items), sids \cup {Head(items).source})

\* buckets[sid]: the items of source sid, in their order in items
Bucket(items, sid) == SelectSeq(items, LAMBDA a : a.source = sid)

\* for sid in order: ... out.append(b.pop(0)) ...: one round over the
\* sources still to visit; gives the buckets, out and `progressed`
RECURSIVE RRRound(_, _, _, _, _)
RRRound(order, buckets, out, limit, progressed) ==
    IF order = <<>>
    THEN [buckets |-> buckets, out |-> out, progressed |-> progressed]
    ELSE LET sid == Head(order)
             b == buckets[sid]
         IN  IF b = <<>>
             THEN RRRound(Tail(order), buckets, out, limit, progressed)
             ELSE LET out2 == Append(out, Head(b))
                      buckets2 == [buckets EXCEPT ![sid] = Tail(b)]
                  IN  IF Len(out2) >= limit
                      THEN [buckets |-> buckets2, out |-> out2, progressed |-> TRUE]
                      ELSE RRRound(Tail(order), buckets2, out2, limit, TRUE)

\* while len(out) < limit: ... if not progressed: break
RECURSIVE RRLoop(_, _, _, _)
RRLoop(order, buckets, out, limit) ==
    IF Len(out) >= limit THEN out
    ELSE LET r == RRRound(order, buckets, out, limit, FALSE)
         IN  IF r.progressed THEN RRLoop(order, r.buckets, r.out, limit)
             ELSE r.out

\* (the cap as a plain truncation)
_round_robin_by_source_Truncate(items, limit) ==
    IF limit <= 0 THEN <<>> ELSE SubSeq(items, 1, Min(limit, Len(items)))

\* _round_robin_by_source(items, limit)
_round_robin_by_source(items, limit) ==
    IF limit <= 0 THEN <<>>
    ELSE LET order == SourceOrder(items, {})
             buckets == [sid \in Sources |-> Bucket(items, sid)]
         IN  RRLoop(order, buckets, <<>>, limit)

\* (the larger of the two caps)
HardCap_Max(mapr, mi) ==
    LET m == IF mapr = <<>> THEN DefaultMaxArticlesPerRun ELSE mapr[1]
    IN  IF m > 0 /\ mi > 0 THEN Max(m, mi)
        ELSE IF m > 0 THEN m ELSE IF mi > 0 THEN mi ELSE NoCap

\* max_articles_per_run = int(crawl_cfg.get("max_articles_per_run", 120))
\* hard_cap = None; if max_articles_per_run > 0: hard_cap = max_articles_per_run
\* if max_items > 0: hard_cap = max_items if hard_cap is None else min(...)
HardCap(mapr, mi) ==
    LET m == IF mapr = <<>> THEN DefaultMaxArticlesPerRun ELSE mapr[1]
        cap1 == IF m > 0 THEN m ELSE NoCap
    IN  IF mi > 0 THEN (IF cap1 = NoCap THEN mi ELSE Min(cap1, mi)) ELSE cap1

\* if hard_cap is not None and len(merged) > hard_cap:
\*     merged = _round_robin_by_source(merged, hard_cap)
ApplyCap(items, cap) ==
    IF cap # NoCap /\ Len(items) > cap THEN _round_robin_by_source(items, cap)
    ELSE items

(***************************************************************************)
(* SpecRR: the calls of _round_robin_by_source that run_pipeline makes:    *)
(* a list of candidates with pairwise different urls, longer than the      *)
(* limit, and a limit above 0.                                             *)
(***************************************************************************)
MaxRRItems == 5

\* a candidate list with sources srcs: the i-th candidate has url i
StubsOf(srcs) == [i \in 1..Len(srcs) |-> Stub(srcs[i], i)]

SourceSeqs(n) == UNION { [1..k -> Sources] : k \in 2..n }

\* three sources that contribute 10, 1 and 1 candidates
TenOneOne ==
    { [i \in 1..12 |-> IF i = 11 THEN "b" ELSE IF i = 12 THEN "c" ELSE "a"],
      [i \in 1..12 |-> IF i = 1 THEN "b" ELSE IF i = 2 THEN "c" ELSE "a"],
      [i \in 1..12 |-> IF i = 4 THEN "b" ELSE IF i = 9 THEN "c" ELSE "a"] }

RRInit ==
    /\ \E srcs \in SourceSeqs(MaxRRItems) \cup TenOneOne :
          /\ rr_items = StubsOf(srcs)
          /\ rr_limit \in 1..(Len(srcs) - 1)
    /\ rr_out = <<>>
    /\ rr_pc = "call"

RRCall ==
    /\ rr_pc = "call"
    /\ rr_out' = _round_robin_by_source(rr_items, rr_limit)
    /\ rr_pc' = "returned"
    /\ UNCHANGED <<rr_items, rr_limit>>

RRIdle == rr_items = <<>> /\ rr_limit = 0 /\ rr_out = <<>> /\ rr_pc = "idle"

(***************************************************************************)
(* SpecCycle: run_pipeline from the feed stubs to the list of candidates   *)
(* it scrapes.                                                             *)
(***************************************************************************)
MaxStream == 3

MaxCap == 2

\* the stubs the feeds and the seed pages of the cycle can yield: three urls,
\* one of them listed by two sources
Stubs == { Stub("a", 1), Stub("b", 1), Stub("b", 2), Stub("a", 3) }

CandUrls == { st.url : st \in Stubs }

StubSeqs(n) == UNION { [1..k -> Stubs] : k \in 0..n }

\* a feed entry can come without a link: rss_entry_to_article gives it the
\* empty url; a discovered link is an absolute url and never empty
FeedStubSeqs(n) == UNION { [1..k -> Stubs \cup {Stub("b", 0)}] : k \in 0..n }

CycleInit ==
    /\ max_items \in 0..MaxCap
    /\ max_articles_per_run \in {<<>>} \cup { <<n>> : n \in 0..MaxCap }
    /\ skip_urls \in SUBSET CandUrls
    /\ rss_articles \in FeedStubSeqs(MaxStream)
    \* fetch_rss_entries keeps feed.entries[:max_items] of each feed
    /\ max_items = 0 => rss_articles = <<>>
    /\ discovered_articles \in StubSeqs(MaxStream - Len(rss_articles))
    /\ merged = <<>>
    /\ hard_cap = NoCap
    /\ capped = <<>>
    /\ to_scrape = <<>>
    /\ cycle_pc = "gathered"

\* lines 127-137 and 209-220: the feed stubs de-duplicated and cleared of
\* skip_urls, then interleaved with the discovered stubs and de-duplicated
Merge ==
    /\ cycle_pc = "gathered"
    /\ merged' = MergeCandidates(
                     RemoveSkipped(UniqueByUrl(rss_articles), skip_urls),
                     discovered_articles)
    /\ cycle_pc' = "merged"
    /\ UNCHANGED <<max_items, max_articles_per_run, skip_urls, rss_articles,
                   discovered_articles, hard_cap, capped, to_scrape>>

\* lines 249-258: the hard cap
Cap ==
    /\ cycle_pc = "merged"
    /\ hard_cap' = HardCap(max_articles_per_run, max_items)
    /\ capped' = ApplyCap(merged, HardCap(max_articles_per_run, max_items))
    /\ cycle_pc' = "capped"
    /\ UNCHANGED <<max_items, max_articles_per_run, skip_urls, rss_articles,
                   discovered_articles, merged, to_scrape>>

\* lines 260-266: skip_urls removed; nothing left ends the cycle with [],
\* otherwise one scrape worker per candidate is started
SkipFilter ==
    /\ cycle_pc = "capped"
    /\ to_scrape' = RemoveSkipped(capped, skip_urls)
    /\ cycle_pc' = IF RemoveSkipped(capped, skip_urls) = <<>> THEN "returned" ELSE "scrape"
    /\ UNCHANGED <<max_items, max_articles_per_run, skip_urls, rss_articles,
                   discovered_articles, merged, hard_cap, capped>>

CycleIdle ==
    /\ max_items = 0
    /\ max_articles_per_run = <<>>
    /\ skip_urls = {}
    /\ rss_articles = <<>>
    /\ discovered_articles = <<>>
    /\ merged = <<>>
    /\ hard_cap = NoCap
    /\ capped = <<>>
    /\ to_scrape = <<>>
    /\ cycle_pc = "idle"

(***************************************************************************)
(* vectorize.py.  A text is a sequence of one-character strings, so that   *)
(* the tokenizer's regular expression and the lowercasing are computed on  *)
(* characters.  The model's alphabet is a sample of each character class   *)
(* of _WORD_RE and of what lies outside it.                                *)
(***************************************************************************)
LowerCase == {"a", "b", "c", "d", "e", "f", "x"}
UpperCase == {"A", "B"}
Digits == {"9"}

\* [A-Za-z]
IsLetter(c) == c \in LowerCase \cup UpperCase

\* [A-Za-z0-9_\-]
IsWordChar(c) == IsLetter(c) \/ c \in Digits \/ c \in {"_", "-"}

\* str.lower on one character
ToLower(c) == IF c = "A" THEN "a" ELSE IF c = "B" THEN "b" ELSE c

\* the code point of a character, the order Python compares strings by
CodePoint(c) ==
    CASE c = " " -> 32 [] c = "-" -> 45 [] c = "." -> 46 [] c = "9" -> 57
      [] c = "A" -> 65 [] c = "B" -> 66 [] c = "_" -> 95
      [] c = "a" -> 97 [] c = "b" -> 98 [] c = "c" -> 99 [] c = "d" -> 100
      [] c = "e" -> 101 [] c = "f" -> 102 [] c = "x" -> 120

\* str < str
RECURSIVE StrLess(_, _)
StrLess(s, t) ==
    IF t = <<>> THEN FALSE
    ELSE IF s = <<>> THEN TRUE
    ELSE IF Head(s) = Head(t) THEN StrLess(Tail(s), Tail(t))
    ELSE CodePoint(Head(s)) < CodePoint(Head(t))

\* the last position of the run of word characters that starts at i
\* (i - 1 when there is none)
RECURSIVE RunEnd(_, _)
RunEnd(s, i) ==
    IF i <= Len(s) /\ IsWordChar(s[i]) THEN RunEnd(s, i + 1) ELSE i - 1

\* _WORD_RE.findall from position i: a letter followed by the longest run of
\* one or more word characters; matches do not overlap
RECURSIVE FindAll(_, _)
FindAll(s, i) ==
    IF i > Len(s) THEN <<>>
    ELSE IF IsLetter(s[i]) /\ RunEnd(s, i + 1) > i
         THEN <<SubSeq(s, i, RunEnd(s, i + 1))>> \o FindAll(s, RunEnd(s, i + 1) + 1)
         ELSE FindAll(s, i + 1)

_tokenize(text) ==
    LET words == FindAll(text, 1)
    IN  [k \in 1..Len(words) |-> [i \in 1..Len(words[k]) |-> ToLower(words[k][i])]]

\* " ".join(tokens)
RECURSIVE Join(_)
Join(tokens) ==
    IF Len(tokens) = 1 THEN tokens[1]
    ELSE tokens[1] \o <<" ">> \o Join(Tail(tokens))

\* the n-grams of one size, in text order
NgramsOfSize(tokens, n) ==
    IF n = 1 THEN tokens
    ELSE [i \in 1..Max(0, Len(tokens) - n + 1) |-> Join(SubSeq(tokens, i, i + n - 1))]

RECURSIVE NgramsFrom(_, _, _)
NgramsFrom(tokens, n, hi) ==
    IF n > hi THEN <<>>
    ELSE NgramsOfSize(tokens, n) \o NgramsFrom(tokens, n + 1, hi)

_ngrams(tokens, ngram_range) == NgramsFrom(tokens, ngram_range[1], ngram_range[2])

\* set(tokens) of one text
TermSet(text, ngram_range) ==
    LET toks == _ngrams(_tokenize(text), ngram_range)
    IN  { toks[i] : i \in 1..Len(toks) }

\* df_counter: term -> number of texts it occurs in
DfCounter(texts, ngram_range) ==
    [t \in UNION { TermSet(texts[i], ngram_range) : i \in 1..Len(texts) } |->
        Cardinality({ i \in 1..Len(texts) : t \in TermSet(texts[i], ngram_range) })]

\* log((1 + n_docs) / (1 + df)) + 1 in eighths, rounded to the nearest;
\* row n_docs, column df
IdfTable ==
    << << 8 >>,
       << 11, 8 >>,
       << 14, 10, 8 >>,
       << 15, 12, 10, 8 >>,
       << 17, 14, 11, 9, 8 >>,
       << 18, 15, 12, 11, 9, 8 >> >>

Idf(n_docs, df) == IdfTable[n_docs][df]

SortsBefore_DfOnly(df, s, t) == df[s] > df[t]

\* the sort key (-df, term)
SortsBefore(df, s, t) == df[s] > df[t] \/ (df[s] = df[t] /\ StrLess(s, t))

\* (no term is filtered out)
FrequentTerms_All(df, min_df) == DOMAIN df

\* items = [(t, c) for t, c in df_counter.items() if c >= min_df]
FrequentTerms(df, min_df) == { t \in DOMAIN df : df[t] >= min_df }

\* TfidfModel: vocab maps a term to its column, idf a column to its weight
fit_tfidf(texts, max_features, ngram_range, min_df) ==
    LET df == DfCounter(texts, ngram_range)
        items == FrequentTerms(df, min_df)
        rank == [t \in items |-> Cardinality({ u \in items : SortsBefore(df, u, t) })]
        kept == { t \in items : rank[t] < max_features }
        n_docs == Max(1, Len(texts))
    IN  [ vocab |-> [t \in kept |-> rank[t]],
          idf |-> [col \in 0..(Cardinality(kept) - 1) |->
                      Idf(n_docs, df[CHOOSE t \in kept : rank[t] = col])] ]

\* tf[term]: Counter(toks)
Count(toks, term) == Cardinality({ i \in 1..Len(toks) : toks[i] = term })

RECURSIVE SumSquares(_, _)
SumSquares(x, V) ==
    IF V = 0 THEN 0 ELSE x[V - 1] * x[V - 1] + SumSquares(x, V - 1)

\* a row of the matrix before the division by its norm: x holds count * idf
\* in eighths, norm2 the square of the norm, 1.0 squared where the norm is 0;
\* the row the code returns is x / sqrt(norm2)
TfidfRow(text, m, ngram_range) ==
    LET toks == _ngrams(_tokenize(text), ngram_range)
        V == Cardinality(DOMAIN m.vocab)
        x == [col \in 0..(V - 1) |->
                 Count(toks, CHOOSE t \in DOMAIN m.vocab : m.vocab[t] = col)
                     * m.idf[col]]
    IN  [ x |-> x,
          norm2 |-> IF SumSquares(x, V) = 0 THEN 8 * 8 ELSE SumSquares(x, V) ]

transform_tfidf(texts, m, ngram_range) ==
    [row \in 1..Len(texts) |-> TfidfRow(texts[row], m, ngram_range)]

(***************************************************************************)
(* dedup.py.  A similarity is kept exactly, as the dot product of the two  *)
(* unnormalised rows and the squares of their two norms; float32 rounding  *)
(* is not modelled.  A threshold is a fraction <<p, q>>, q > 0.            *)
(***************************************************************************)
RECURSIVE Dot(_, _, _)
Dot(x, y, V) == IF V = 0 THEN 0 ELSE x[V - 1] * y[V - 1] + Dot(x, y, V - 1)

\* sims = X[1:] @ X[0]; entry i is dot / sqrt(row2 * cand2)
Sims(rows) ==
    [i \in 1..(Len(rows) - 1) |->
        [ dot |-> Dot(rows[i + 1].x, rows[1].x, Cardinality(DOMAIN rows[1].x)),
          row2 |-> rows[i + 1].norm2,
          cand2 |-> rows[1].norm2 ]]

\* a > b for two entries of one sims vector (they share cand2)
SimGreater(a, b) == a.dot * a.dot * b.row2 > b.dot * b.dot * a.row2

\* np.argmax: the first index of the maximum
RECURSIVE ArgMaxFrom(_, _, _)
ArgMaxFrom(sims, i, best) ==
    IF i > Len(sims) THEN best
    ELSE ArgMaxFrom(sims, i + 1, IF SimGreater(sims[i], sims[best]) THEN i ELSE best)

ArgMax_Last(sims) ==
    CHOOSE i \in 1..Len(sims) :
        /\ \A j \in 1..Len(sims) : ~SimGreater(sims[j], sims[i])
        /\ \A j \in (i + 1)..Len(sims) : SimGreater(sims[i], sims[j])

ArgMax(sims) == ArgMaxFrom(sims, 2, 1)

SimGE_Inverted(sim, th) ==
    th[1] >= 0
      /\ sim.dot * sim.dot * th[2] * th[2] <= th[1] * th[1] * sim.row2 * sim.cand2

\* best_sim >= threshold
SimGE(sim, th) ==
    th[1] <= 0
      \/ sim.dot * sim.dot * th[2] * th[2] >= th[1] * th[1] * sim.row2 * sim.cand2

\* 0.0
ZeroSim == [dot |-> 0, row2 |-> 1, cand2 |-> 1]

DedupResult(is_duplicate, duplicate_of_url, best_similarity) ==
    [ is_duplicate |-> is_duplicate,
      duplicate_of_url |-> duplicate_of_url,
      best_similarity |-> best_similarity,
      raised |-> "" ]

\* recent_urls[best_idx] on a list that is too short
IndexError == [ is_duplicate |-> FALSE, duplicate_of_url |-> "None",
                best_similarity |-> ZeroSim, raised |-> "IndexError" ]

DedupMaxFeatures == 8000
DedupNgramRange == <<1, 2>>
DedupMinDf == 2

\* lines 33-43: the verdict on the rows of the transformed batch
Verdict(rows, urls, th) ==
    LET sims == Sims(rows)
        best_idx == ArgMax(sims)
        best_sim == sims[best_idx]
    IN  IF Len(sims) = 0 THEN DedupResult(FALSE, "None", ZeroSim)
        ELSE IF SimGE(best_sim, th)
             THEN IF best_idx <= Len(urls)
                  THEN DedupResult(TRUE, urls[best_idx], best_sim)
                  ELSE IndexError
             ELSE DedupResult(FALSE, "None", best_sim)

(***************************************************************************)
(* SpecDedup: one call of dedup_against_recent, as the dedup loop of       *)
(* run_pipeline (lines 336-349) makes it for one enriched article, on a    *)
(* window whose two lists are index-aligned.  dedup_pc is the position in  *)
(* the call: "call", "transform" (line 30), "verdict" (line 33),           *)
(* "returned".                                                             *)
(***************************************************************************)
MaxRecent == 2

\* "", "ab cd", "Ab cd", "ab ef", "ef x 9", "x 9.", "cd ab cd"
TextPool ==
    { <<>>,
      <<"a", "b", " ", "c", "d">>,
      <<"A", "b", " ", "c", "d">>,
      <<"a", "b", " ", "e", "f">>,
      <<"e", "f", " ", "x", " ", "9">>,
      <<"x", " ", "9", ".">>,
      <<"c", "d", " ", "a", "b", " ", "c", "d">> }

\* the url stored with the text at each position of the window
WindowUrls == <<"u1", "u2", "u3", "u4">>

\* 0, 1/2, 9/10, 1, 11/10
Thresholds == { <<0, 1>>, <<1, 2>>, <<9, 10>>, <<1, 1>>, <<11, 10>> }

NoResult == DedupResult(FALSE, "None", ZeroSim)

NoModel == [vocab |-> <<>>, idf |-> <<>>]

\* (the candidate left out of the batch)
BatchOf_WindowOnly(text, texts) == texts

\* texts = [candidate_text] + recent_texts
BatchOf(text, texts) == <<text>> \o texts

Batch == BatchOf(candidate_text, recent_texts)

\* lines 17-43 as one function of the five arguments
dedup_against_recent(text, cand_url, texts, urls, th) ==
    IF text = <<>> \/ texts = <<>> THEN DedupResult(FALSE, "None", ZeroSim)
    ELSE Verdict(transform_tfidf(BatchOf(text, texts),
                                 fit_tfidf(BatchOf(text, texts), DedupMaxFeatures,
                                           DedupNgramRange, DedupMinDf),
                                 DedupNgramRange),
                 urls, th)

\* the urls of the candidates: one that no window holds and two that the
\* window can hold
CandidateUrls == {"u0", "u1", "u2"}

DedupInit ==
    /\ candidate_text \in TextPool
    /\ candidate_url \in CandidateUrls
    /\ recent_texts \in UNION { [1..k -> TextPool] : k \in 0..MaxRecent }
    /\ recent_urls = SubSeq(WindowUrls, 1, Len(recent_texts))
    /\ threshold \in Thresholds
    /\ model = NoModel
    /\ X = <<>>
    /\ dedup_result = NoResult
    /\ dedup_pc = "call"

\* lines 24-25: an empty candidate or an empty window
DedupNothingToCompare ==
    /\ dedup_pc = "call"
    /\ candidate_text = <<>> \/ recent_texts = <<>>
    /\ dedup_result' = DedupResult(FALSE, "None", ZeroSim)
    /\ dedup_pc' = "returned"
    /\ UNCHANGED <<candidate_text, candidate_url, recent_texts, recent_urls,
                   threshold, model, X>>

\* lines 27-29
DedupFit ==
    /\ dedup_pc = "call"
    /\ candidate_text # <<>> /\ recent_texts # <<>>
    /\ model' = fit_tfidf(Batch, DedupMaxFeatures, DedupNgramRange, DedupMinDf)
    /\ dedup_pc' = "transform"
    /\ UNCHANGED <<candidate_text, candidate_url, recent_texts, recent_urls,
                   threshold, X, dedup_result>>

\* line 30
DedupTransform ==
    /\ dedup_pc = "transform"
    /\ X' = transform_tfidf(Batch, model, DedupNgramRange)
    /\ dedup_pc' = "verdict"
    /\ UNCHANGED <<candidate_text, candidate_url, recent_texts, recent_urls,
                   threshold, model, dedup_result>>

\* lines 33-43
DedupVerdict ==
    /\ dedup_pc = "verdict"
    /\ dedup_result' = Verdict(X, recent_urls, threshold)
    /\ dedup_pc' = "returned"
    /\ UNCHANGED <<candidate_text, candidate_url, recent_texts, recent_urls,
                   threshold, model, X>>

DedupIdle ==
    /\ candidate_text = <<>>
    /\ candidate_url = ""
    /\ recent_texts = <<>>
    /\ recent_urls = <<>>
    /\ threshold = <<0, 1>>
    /\ model = NoModel
    /\ X = <<>>
    /\ dedup_result = NoResult
    /\ dedup_pc = "idle"

(***************************************************************************)
(* storage.py.  A frame is a sequence of rows, a row a record of values;   *)
(* a value is None, NaN or a string.  The CSV file holds the text of each  *)
(* cell, so a value read back is what pandas parses from that text.        *)
(***************************************************************************)
None == [kind |-> "None", s |-> ""]
NaN == [kind |-> "NaN", s |-> ""]
Str(s) == [kind |-> "str", s |-> s]

\* DataFrame.to_csv: a missing value is written as the empty cell
ToCsv(v) == IF v.kind = "str" THEN v.s ELSE ""

\* the cell texts pandas.read_csv takes for a missing value (those the
\* model's values can produce)
NaValues == {"", "NA", "N/A"}

\* pandas.read_csv on one cell
FromCsv(cell) == IF cell \in NaValues THEN NaN ELSE Str(cell)

Columns == {"url", "title"}

\* the file is <<>> when path does not exist, else <<rows of cell texts>>
read_existing(file) ==
    IF file = <<>> THEN <<>>
    ELSE << [i \in 1..Len(file[1]) |-> [c \in Columns |-> FromCsv(file[1][i][c])]] >>

write_frame(df) ==
    << [i \in 1..Len(df) |-> [c \in Columns |-> ToCsv(df[i][c])]] >>

\* the indices of a frame that drop_duplicates keeps
KeptRows_First(df, key) ==
    { i \in 1..Len(df) : \A j \in 1..(i - 1) : df[j][key] # df[i][key] }

KeptRows(df, key) ==
    { i \in 1..Len(df) : \A j \in (i + 1)..Len(df) : df[j][key] # df[i][key] }

\* the k-th smallest element of a set of indices
RECURSIVE Nth(_, _)
Nth(S, k) ==
    LET m == CHOOSE x \in S : \A y \in S : x <= y
    IN  IF k = 1 THEN m ELSE Nth(S \ {m}, k - 1)

\* DataFrame.drop_duplicates(subset=[key], keep="last")
DropDuplicates(df, key) ==
    [k \in 1..Cardinality(KeptRows(df, key)) |-> df[Nth(KeptRows(df, key), k)]]

\* the frame upsert_file writes and returns
\* lines 62-66: old_df is <<>> for None
CombineWith(old_df, new_df, key) ==
    IF old_df # <<>>
    THEN DropDuplicates(old_df[1] \o new_df, key)
    ELSE DropDuplicates(new_df, key)

Combined(file, new_df, key) == CombineWith(read_existing(file), new_df, key)

upsert_file(file, new_df, key) == write_frame(Combined(file, new_df, key))

(***************************************************************************)
(* SpecStore: the upserts run_pipeline makes into one source's file, one   *)
(* after the other (lines 351-364); each writes the group of one cycle's   *)
(* articles of that source.                                                *)
(***************************************************************************)
MaxBatch == 2

StoreUrls == {"u1", "u2"}

\* the values a field of an article can hold
FieldValues == { None, Str(""), Str("NA"), Str("t1"), Str("t2") }

\* articles_to_frame: one row per article
ArticleRows == { [url |-> Str(u), title |-> v] : u \in StoreUrls, v \in FieldValues }

Batches == UNION { [1..k -> ArticleRows] : k \in 1..MaxBatch }

NotWritten == [n |-> 0, title |-> None]

\* the ghost record after the rows of a batch were written in order
RECURSIVE Written(_, _)
Written(log, batch) ==
    IF batch = <<>> THEN log
    ELSE Written([log EXCEPT ![Head(batch).url.s] =
                      [n |-> Min(2, @.n + 1), title |-> Head(batch).title]],
                 Tail(batch))

StoreInit ==
    /\ csv_file = <<>>
    /\ last_write = [u \in StoreUrls |-> NotWritten]
    /\ store_pc = "run"

\* line 364
Upsert(batch) ==
    /\ store_pc = "run"
    /\ csv_file' = upsert_file(csv_file, batch, "url")
    /\ last_write' = Written(last_write, batch)
    /\ UNCHANGED store_pc

StoreIdle ==
    /\ csv_file = <<>>
    /\ last_write = [u \in StoreUrls |-> NotWritten]
    /\ store_pc = "idle"

(***************************************************************************)
(* discover.py.  A URL is a string; SubSeq, Len and \o work on its         *)
(* characters.  The urllib.parse functions the module calls are modelled   *)
(* on the URLs the model builds: no ";" parameters, no "." or ".." path    *)
(* segments, "%20" as the only percent escape.                             *)
(***************************************************************************)
CharAt(s, i) == SubSeq(s, i, i)

\* sub in s
Contains(s, sub) == \E i \in 1..(Len(s) - Len(sub) + 1) : SubSeq(s, i, i + Len(sub) - 1) = sub

\* the least of a set of positions, 0 for the empty set
Least(S) == IF S = {} THEN 0 ELSE CHOOSE i \in S : \A j \in S : i <= j

\* s.find(sub) + 1: the first position of sub in s, 0 when there is none
Find(s, sub) ==
    Least({ i \in 1..(Len(s) - Len(sub) + 1) : SubSeq(s, i, i + Len(sub) - 1) = sub })

StartsWith(s, prefix) == Len(prefix) <= Len(s) /\ SubSeq(s, 1, Len(prefix)) = prefix

EndsWith(s, suffix) ==
    Len(suffix) <= Len(s) /\ SubSeq(s, Len(s) - Len(suffix) + 1, Len(s)) = suffix

UpperLetters == "ABCDEFGHIJKLMNOPQRSTUVWXYZ"
LowerLetters == "abcdefghijklmnopqrstuvwxyz"
DigitChars == { "0", "1", "2", "3", "4", "5", "6", "7", "8", "9" }

LowerChar(c) ==
    IF Contains(UpperLetters, c) THEN CharAt(LowerLetters, Find(UpperLetters, c)) ELSE c

\* str.lower
RECURSIVE StrLower(_)
StrLower(s) == IF s = "" THEN "" ELSE LowerChar(Head(s)) \o StrLower(Tail(s))

\* str.split(sep) for a one-character sep
RECURSIVE Split(_, _)
SplitAt(s, sep, at) ==
    IF at = 0 THEN <<s>>
    ELSE <<SubSeq(s, 1, at - 1)>> \o Split(SubSeq(s, at + 1, Len(s)), sep)

Split(s, sep) == SplitAt(s, sep, Find(s, sep))

\* sep.join(parts)
RECURSIVE StrJoin(_, _)
StrJoin(parts, sep) ==
    IF parts = <<>> THEN ""
    ELSE IF Len(parts) = 1 THEN parts[1]
    ELSE parts[1] \o sep \o StrJoin(Tail(parts), sep)

\* str.rstrip("/")
RECURSIVE RStripSlash(_)
RStripSlash(s) ==
    IF EndsWith(s, "/") THEN RStripSlash(SubSeq(s, 1, Len(s) - 1)) ELSE s

\* the text before the first occurrence of sep (all of s when there is none)
UpTo(s, at) == IF at = 0 THEN s ELSE SubSeq(s, 1, at - 1)

Before(s, sep) == UpTo(s, Find(s, sep))

\* the text after the first occurrence of sep ("" when there is none)
Beyond(s, at, n) == IF at = 0 THEN "" ELSE SubSeq(s, at + n, Len(s))

After(s, sep) == Beyond(s, Find(s, sep), Len(sep))

\* the characters a scheme is made of
IsSchemeText(s) ==
    /\ s # ""
    /\ Contains(LowerLetters, LowerChar(Head(s)))
    /\ \A i \in 1..Len(s) :
          \/ Contains(LowerLetters, LowerChar(CharAt(s, i)))
          \/ CharAt(s, i) \in DigitChars \cup {"+", "-", "."}

\* urllib.parse.urlparse: the scheme is lowercased, the netloc ends at the
\* first of "/", "?", "#"
\* the text before the first "/", "?" or "#" holds a scheme before a ":"
SchemeIn(head) == Find(head, ":") > 0 /\ IsSchemeText(Before(head, ":"))

HasScheme(u) == SchemeIn(Before(Before(Before(u, "#"), "?"), "/"))

\* the netloc and the path of what follows "//"
NetlocAndPath(netloc, after_slashes) ==
    [ netloc |-> netloc,
      path |-> SubSeq(after_slashes, Len(netloc) + 1, Len(after_slashes)) ]

\* the netloc and the path of the text between the scheme and the query
Hierarchy(no_query) ==
    IF StartsWith(no_query, "//")
    THEN NetlocAndPath(Before(SubSeq(no_query, 3, Len(no_query)), "/"),
                       SubSeq(no_query, 3, Len(no_query)))
    ELSE [ netloc |-> "", path |-> no_query ]

ParseResult(scheme, hier, query, fragment) ==
    [ scheme |-> scheme, netloc |-> hier.netloc, path |-> hier.path,
      query |-> query, fragment |-> fragment ]

\* the parts of a URL that follow its scheme
ParseRest(scheme, rest) ==
    ParseResult(scheme, Hierarchy(Before(Before(rest, "#"), "?")),
                After(Before(rest, "#"), "?"), After(rest, "#"))

urlparse(u) ==
    IF HasScheme(u) THEN ParseRest(StrLower(Before(u, ":")), After(u, ":"))
    ELSE ParseRest("", u)

\* urllib.parse.urlunparse
urlunparse(p) ==
    (IF p.scheme # "" THEN p.scheme \o ":" ELSE "")
    \o (IF p.netloc # "" THEN "//" \o p.netloc ELSE "")
    \o p.path
    \o (IF p.query # "" THEN "?" \o p.query ELSE "")
    \o (IF p.fragment # "" THEN "#" \o p.fragment ELSE "")

\* urllib.parse.unquote_plus: "+" and "%20" stand for a blank
RECURSIVE Unquote(_)
Unquote(s) ==
    IF s = "" THEN ""
    ELSE IF StartsWith(s, "%20") THEN " " \o Unquote(SubSeq(s, 4, Len(s)))
    ELSE IF Head(s) = "+" THEN " " \o Unquote(Tail(s))
    ELSE Head(s) \o Unquote(Tail(s))

\* urllib.parse.quote_plus: a blank is written "+"
RECURSIVE Quote(_)
Quote(s) ==
    IF s = "" THEN ""
    ELSE IF Head(s) = " " THEN "+" \o Quote(Tail(s))
    ELSE Head(s) \o Quote(Tail(s))

\* one field of the query as a <<name, value>> pair
Field(f) == << Unquote(Before(f, "=")), Unquote(After(f, "=")) >>

\* the fields of a query: the texts between the "&"
Fields(query) ==
    IF query = "" THEN <<>>
    ELSE SelectSeq(Split(query, "&"), LAMBDA f : f # "")

PairsOf(fs) == [i \in 1..Len(fs) |-> Field(fs[i])]

\* parse_qsl(query, keep_blank_values=False): a field with an empty value
\* is left out
parse_qsl(query) ==
    PairsOf(SelectSeq(Fields(query), LAMBDA f : After(f, "=") # ""))

\* urlencode(pairs, doseq=True)
urlencode(pairs) ==
    StrJoin([i \in 1..Len(pairs) |-> Quote(pairs[i][1]) \o "=" \o Quote(pairs[i][2])], "&")

\* _DEFAULT_TRACKING_PARAMS_PREFIXES
_DEFAULT_TRACKING_PARAMS_PREFIXES == { "utm_" }

\* _DEFAULT_TRACKING_PARAMS
_DEFAULT_TRACKING_PARAMS ==
    { "fbclid", "gclid", "msclkid", "mc_cid", "mc_eid", "guccounter",
      "guce_referrer", "guce_referrer_sig", "soc_src", "soc_trk", "cmpid" }

\* lines 97-101: the parameter name is a tracking name
IsTracking_PrefixOnly(k) ==
    \E prefix \in _DEFAULT_TRACKING_PARAMS_PREFIXES : StartsWith(StrLower(k), prefix)

IsTracking(k) ==
    \/ \E prefix \in _DEFAULT_TRACKING_PARAMS_PREFIXES : StartsWith(StrLower(k), prefix)
    \/ StrLower(k) \in _DEFAULT_TRACKING_PARAMS

\* lines 92-106, p the parsed url
StripParsed(u, p) ==
    IF p.scheme = "" \/ p.netloc = "" THEN u
    ELSE urlunparse([p EXCEPT
             !.query = urlencode(SelectSeq(parse_qsl(p.query),
                                           LAMBDA kv : ~IsTracking(kv[1]))),
             !.fragment = ""])

_strip_fragment_and_tracking_params(u) == StripParsed(u, urlparse(u))

(***************************************************************************)
(* SpecUrl: _strip_fragment_and_tracking_params applied to a URL, as       *)
(* discover_links_from_html does for every link (line 226), and applied    *)
(* again to its own result.                                                *)
(***************************************************************************)
MaxFields == 2

\* with a scheme in upper case and no path, and without scheme and host
UrlBases == { "https://x.com/a", "HTTPS://x.com", "x.com/a" }

\* tracking names in both cases, an empty value, an escaped blank
QueryFields == { "utm_source=x", "id=5", "UTM_Medium=y", "fbclid=1", "b=", "q=a%20b" }

Queries == { StrJoin(fs, "&") : fs \in UNION { [1..k -> QueryFields] : k \in 0..MaxFields } }

UrlPool ==
    { base \o (IF q = "" THEN "" ELSE "?" \o q) \o frag :
        base \in UrlBases, q \in Queries, frag \in {"", "#frag"} }

UrlInit ==
    /\ norm_url \in UrlPool
    /\ norm_once = ""
    /\ norm_twice = ""
    /\ norm_pc = "call"

\* line 226
Normalize ==
    /\ norm_pc = "call"
    /\ norm_once' = _strip_fragment_and_tracking_params(norm_url)
    /\ norm_pc' = "once"
    /\ UNCHANGED <<norm_url, norm_twice>>

\* the result normalized again
NormalizeAgain ==
    /\ norm_pc = "once"
    /\ norm_twice' = _strip_fragment_and_tracking_params(norm_once)
    /\ norm_pc' = "twice"
    /\ UNCHANGED <<norm_url, norm_once>>

UrlIdle == norm_url = "" /\ norm_once = "" /\ norm_twice = "" /\ norm_pc = "idle"

(***************************************************************************)
(* discover.py: link discovery.  An anchor is a record of its href and     *)
(* its text; a score is kept in tenths.  allow_regex and deny_regex are    *)
(* "" (None) or a pattern without metacharacters, which re.search finds    *)
(* where the text contains it.                                             *)
(***************************************************************************)
_DEFAULT_DENY_SUBSTRINGS ==
    { "/video/", "/live/", "/podcast", "/subscribe", "/signin", "/login",
      "/account", "#", "javascript:" }

_HUB_PATH_SUBSTRINGS ==
    { "/topic/", "/topics/", "/tag/", "/tags/", "/category/", "/categories/",
      "/section/", "/sections/", "/author/", "/authors/", "/search",
      "/quote/", "/quotes/", "/calendar/", "/screener/" }

\* {"news", "business", "markets", "world", "finance"}
SectionRoots == { "news", "business", "markets", "world", "finance" }

\* str.strip on blanks
RECURSIVE Strip(_)
Strip(s) ==
    IF StartsWith(s, " ") THEN Strip(Tail(s))
    ELSE IF EndsWith(s, " ") THEN Strip(SubSeq(s, 1, Len(s) - 1))
    ELSE s

\* the path of the base up to its last "/"
RECURSIVE BaseDir(_)
BaseDir(path) ==
    IF path = "" THEN "/"
    ELSE IF EndsWith(path, "/") THEN path
    ELSE BaseDir(SubSeq(path, 1, Len(path) - 1))

\* urllib.parse.urljoin for a base with a scheme and a host
JoinParsed(b, r, href) ==
    IF r.scheme # "" /\ r.scheme # b.scheme THEN href
    ELSE IF r.netloc # "" THEN urlunparse([r EXCEPT !.scheme = b.scheme])
    ELSE IF r.path = ""
         THEN urlunparse([b EXCEPT !.query = IF r.query = "" THEN b.query ELSE r.query,
                                   !.fragment = r.fragment])
    ELSE IF StartsWith(r.path, "/")
         THEN urlunparse([r EXCEPT !.scheme = b.scheme, !.netloc = b.netloc])
    ELSE urlunparse([r EXCEPT !.scheme = b.scheme, !.netloc = b.netloc,
                              !.path = BaseDir(b.path) \o r.path])

urljoin(base, href) == JoinParsed(urlparse(base), urlparse(href), href)

\* _normalize_url: "" stands for None
_normalize_url(seed, href) ==
    IF href = "" THEN ""
    ELSE IF \E x \in {"mailto:", "tel:"} : StartsWith(StrLower(Strip(href)), x) THEN ""
    ELSE urljoin(seed, Strip(href))

_same_domain(seed, u) == StrLower(urlparse(seed).netloc) = StrLower(urlparse(u).netloc)

\* a date pattern at position i of s: "d" in the shape stands for \d
MatchesShape(s, i, shape) ==
    /\ i + Len(shape) - 1 <= Len(s)
    /\ \A k \in 1..Len(shape) :
          IF CharAt(shape, k) = "d" THEN CharAt(s, i + k - 1) \in DigitChars
          ELSE CharAt(s, i + k - 1) = CharAt(shape, k)

\* _DATE_IN_PATH_RE.search(path)
HasDateInPath(path) ==
    \E shape \in { "/dddd/dd/dd/", "/dddd-dd-dd/" } :
        \E i \in 1..Len(path) : MatchesShape(path, i, shape)

\* lines 120-128, path the lowercased path of the url
LooksLikeArticlePath(path) ==
    \/ HasDateInPath(path)
    \/ EndsWith(path, ".html") \/ EndsWith(path, ".htm")
    \/ Contains(path, "/article/")
    \/ Contains(path, "/news/") /\ Len(Split(path, "/")) >= 4

_looks_like_article_url(u) == LooksLikeArticlePath(StrLower(urlparse(u).path))

_is_hub_or_nav_url(u) ==
    \E s \in _HUB_PATH_SUBSTRINGS : Contains(StrLower(urlparse(u).path), s)

\* [s for s in path.split("/") if s]
Segs(path) == SelectSeq(Split(path, "/"), LAMBDA s : s # "")

IsSectionRoot_Never(path) == FALSE

\* len(segs) == 1 and segs[0] in {...}
IsSectionRoot(path) == \E segs \in {Segs(path)} : Len(segs) = 1 /\ segs[1] \in SectionRoots

\* _score_candidate, in tenths
\* lines 146-188, with path, segs and t as lines 142, 148 and 179 set them
ScoreSum(seed, u, title, path, segs, t) ==
    Min(Len(segs), 8) * 4
    - (IF IsSectionRoot(path) THEN 100 ELSE 0)
    + (IF _looks_like_article_url(u) THEN 80 ELSE 0)
    + (IF HasDateInPath(path) THEN 40 ELSE 0)
    + (IF EndsWith(path, ".html") \/ EndsWith(path, ".htm") THEN 20 ELSE 0)
    + (IF Contains(IF segs = <<>> THEN "" ELSE segs[Len(segs)], "-")
       THEN 15 ELSE 0)
    - (IF _is_hub_or_nav_url(u) THEN 80 ELSE 0)
    - (IF path \in {"/", ""} THEN 100 ELSE 0)
    - (IF RStripSlash(_strip_fragment_and_tracking_params(u))
            = RStripSlash(_strip_fragment_and_tracking_params(seed))
       THEN 100 ELSE 0)
    + (IF title = "" THEN 0
       ELSE IF Len(t) >= 16 THEN 6 ELSE IF Len(t) <= 5 THEN 0 - 6 ELSE 0)
    - (IF urlparse(u).query # "" THEN 5 ELSE 0)

ScoreOnPath(seed, u, title, path) ==
    ScoreSum(seed, u, title, path, Segs(path), Strip(title))

_score_candidate(seed, u, title) ==
    ScoreOnPath(seed, u, title, StrLower(urlparse(u).path))

\* lines 222-226: the url of an anchor, "" when it has none
StripUnlessNone(u) ==
    IF u = "" THEN "" ELSE _strip_fragment_and_tracking_params(u)

AnchorUrl(seed, a) == StripUnlessNone(_normalize_url(seed, a.href))

\* lines 223-251: the anchor's url passes every filter
Survives(seed, u, opts, seen_urls) ==
    /\ u # ""
    /\ ~\E s \in _DEFAULT_DENY_SUBSTRINGS : Contains(StrLower(u), s)
    /\ opts.same_domain_only => _same_domain(seed, u)
    /\ opts.deny_regex # "" => ~Contains(u, opts.deny_regex)
    /\ opts.allow_regex # "" => Contains(u, opts.allow_regex)
    /\ urlparse(u).path \notin {"/", ""}
    /\ ~IsSectionRoot(StrLower(urlparse(u).path))
    /\ StrLower(u) \notin seen_urls

\* DiscoveredLink
DiscoveredLink(u, title) == [url |-> u, title |-> title]

\* line 257: the scores of the candidates, in their order
RECURSIVE ScoresOf(_, _)
ScoresOf(seed, cands) ==
    IF cands = <<>> THEN <<>>
    ELSE <<_score_candidate(seed, Head(cands).url, Head(cands).title)>>
         \o ScoresOf(seed, Tail(cands))

\* scored.sort(key=lambda x: x[0], reverse=True): the position of the
\* candidate i, equal scores in their order in the list
RankOf(scores, i) ==
    1 + Cardinality({ j \in 1..Len(scores) :
            \/ scores[j] > scores[i]
            \/ scores[j] = scores[i] /\ j < i })

\* the candidate at position k of the sorted list
RECURSIVE SortedFrom(_, _, _)
SortedFrom(cands, scores, k) ==
    IF k > Len(cands) THEN <<>>
    ELSE <<cands[CHOOSE i \in 1..Len(cands) : RankOf(scores, i) = k]>>
         \o SortedFrom(cands, scores, k + 1)

\* lines 257-259
Ranked(seed, cands, max_links) ==
    SubSeq(SortedFrom(cands, ScoresOf(seed, cands), 1), 1,
           Min(Len(cands), Max(0, max_links)))

(***************************************************************************)
(* SpecDiscover: one call of discover_links_from_html, one step for each   *)
(* anchor of the page and one for the ranking.                             *)
(***************************************************************************)
MaxAnchors == 3

\* scan_limit: int = 1500
DefaultScanLimit == 1500

Anchor(href, text) == [href |-> href, text |-> text]

ArticleHref == "/news/2024/05/01/fed-raises-rates.html"

\* the anchors a page "https://example.com/markets" is made of
FullPage ==
    << Anchor("/markets", "Markets"),
       Anchor(ArticleHref, "Fed raises rates again"),
       Anchor("/topic/earnings", "Earnings"),
       Anchor("#", ""),
       Anchor("https://other.com/article/x-y", "Other"),
       Anchor(" /news/a?utm_source=x&id=5#frag", "A"),
       Anchor("mailto:a@example.com", "Mail"),
       Anchor("/News/2024/05/01/fed-raises-rates.html", "Again"),
       Anchor("b.htm", "") >>

\* the page with the anchors of FullPage at the positions in S, in order
PageOf(S) ==
    [k \in 1..Cardinality(S) |->
        FullPage[CHOOSE i \in S : Cardinality({j \in S : j < i}) = k - 1]]

\* the page with the four hrefs "/markets", the article, "/topic/earnings"
\* and "#"
ExamplePage == PageOf(1..4)

Pages ==
    { PageOf(S) : S \in { T \in SUBSET (1..Len(FullPage)) : Cardinality(T) <= MaxAnchors } }

Options(max_links, allow_regex, deny_regex, same_domain_only) ==
    [ max_links |-> max_links, scan_limit |-> DefaultScanLimit,
      allow_regex |-> allow_regex, deny_regex |-> deny_regex,
      same_domain_only |-> same_domain_only ]

\* max_links=35 as run_pipeline passes it by default, no patterns
DefaultOptions == Options(35, "", "", TRUE)

OptionPool ==
    { DefaultOptions, Options(1, "", "", TRUE), Options(35, "/news/", "", TRUE),
      Options(35, "", "earnings", TRUE), Options(35, "", "", FALSE) }

DiscoverInit ==
    /\ seed_url = "https://example.com/markets"
    /\ anchors \in Pages \cup {ExamplePage}
    /\ options \in OptionPool
    /\ scanned = 0
    /\ candidates = <<>>
    /\ seen = {}
    /\ links = <<>>
    /\ disc_pc = "scan"

\* lines 217-218: the loop goes on
MoreToScan ==
    /\ scanned < Len(anchors)
    /\ ~(options.scan_limit > 0 /\ scanned >= options.scan_limit)

\* lines 216-255: one anchor
ScanAnchor ==
    /\ disc_pc = "scan"
    /\ MoreToScan
    /\ scanned' = scanned + 1
    /\ \E a \in {anchors[scanned + 1]} :
         \E u \in {AnchorUrl(seed_url, a)} :
           IF Survives(seed_url, u, options, seen)
           THEN /\ seen' = seen \cup {StrLower(u)}
                /\ candidates' = Append(candidates, DiscoveredLink(u, Strip(a.text)))
           ELSE UNCHANGED <<seen, candidates>>
    /\ UNCHANGED <<seed_url, anchors, options, links, disc_pc>>

\* lines 257-259
RankLinks ==
    /\ disc_pc = "scan"
    /\ ~MoreToScan
    /\ links' = Ranked(seed_url, candidates, options.max_links)
    /\ disc_pc' = "returned"
    /\ UNCHANGED <<seed_url, anchors, options, scanned, candidates, seen>>

DiscoverIdle ==
    /\ seed_url = ""
    /\ anchors = <<>>
    /\ options = DefaultOptions
    /\ scanned = 0
    /\ candidates = <<>>
    /\ seen = {}
    /\ links = <<>>
    /\ disc_pc = "idle"

(***************************************************************************)
(* SpecFit: fit_tfidf called twice on one corpus, as the code computes it: *)
(* df_counter holds its terms in the order they were first counted, the    *)
(* terms of one text in the order set(tokens) happens to yield them.       *)
(***************************************************************************)
MaxCorpus == 2

\* the orders a set can be iterated in
IterationOrders(S) ==
    { f \in [1..Cardinality(S) -> S] : \A i, j \in DOMAIN f : i # j => f[i] # f[j] }

\* lines 45-47: the orders in which df_counter can hold its terms after
\* update(set(tokens)) for each text, counted being the terms held before
RECURSIVE CounterOrders(_, _, _)
CounterOrders(texts, ngram_range, counted) ==
    IF texts = <<>> THEN { <<>> }
    ELSE LET new == TermSet(Head(texts), ngram_range) \ counted
         IN  { first \o rest :
                  first \in IterationOrders(new),
                  rest \in CounterOrders(Tail(texts), ngram_range, counted \cup new) }

\* items.sort(key=lambda x: (-x[1], x[0])): the position of item i, items
\* with equal keys in their order in the list
SortedPosition(df, items, i) ==
    1 + Cardinality({ j \in 1..Len(items) :
            \/ SortsBefore(df, items[j], items[i])
            \/ /\ ~SortsBefore(df, items[i], items[j])
               /\ j < i })

RECURSIVE SortedItemsFrom(_, _, _)
SortedItemsFrom(df, items, k) ==
    IF k > Len(items) THEN <<>>
    ELSE <<items[CHOOSE i \in 1..Len(items) : SortedPosition(df, items, i) = k]>>
         \o SortedItemsFrom(df, items, k + 1)

\* lines 49-55: the vocab built from df_counter holding its terms in order
VocabOf(texts, args, order) ==
    LET df == DfCounter(texts, args.ngram_range)
        items == SelectSeq(order, LAMBDA t : df[t] >= args.min_df)
        sorted == SortedItemsFrom(df, items, 1)
        top == SubSeq(sorted, 1, Min(Len(sorted), args.max_features))
    IN  [t \in { top[i] : i \in 1..Len(top) } |->
            (CHOOSE i \in 1..Len(top) : top[i] = t) - 1]

\* "ab cd", "cd ab", "ab ef", "Ab", "x ab x"
FitTexts ==
    { <<"a", "b", " ", "c", "d">>,
      <<"c", "d", " ", "a", "b">>,
      <<"a", "b", " ", "e", "f">>,
      <<"A", "b">>,
      <<"x", " ", "a", "b", " ", "x">> }

FitArgs(max_features, ngram_range, min_df) ==
    [ max_features |-> max_features, ngram_range |-> ngram_range, min_df |-> min_df ]

FitArgsPool ==
    { FitArgs(DedupMaxFeatures, DedupNgramRange, DedupMinDf),
      FitArgs(DedupMaxFeatures, DedupNgramRange, 1),
      FitArgs(2, DedupNgramRange, 1),
      FitArgs(1, DedupNgramRange, 1),
      FitArgs(2, <<1, 1>>, 1),
      FitArgs(1, <<1, 2>>, 2) }

NotFitted == [vocab |-> "none"]

FitInit ==
    /\ corpus \in UNION { [1..n -> FitTexts] : n \in 1..MaxCorpus }
    /\ fit_args \in FitArgsPool
    /\ first_fit = NotFitted
    /\ second_fit = NotFitted
    /\ fit_pc = "call"

\* fit_tfidf(corpus, ...)
Fit ==
    /\ fit_pc = "call"
    /\ \E order \in CounterOrders(corpus, fit_args.ngram_range, {}) :
          first_fit' = [vocab |-> VocabOf(corpus, fit_args, order)]
    /\ fit_pc' = "fitted"
    /\ UNCHANGED <<corpus, fit_args, second_fit>>

\* fit_tfidf(corpus, ...) once more
FitAgain ==
    /\ fit_pc = "fitted"
    /\ \E order \in CounterOrders(corpus, fit_args.ngram_range, {}) :
          second_fit' = [vocab |-> VocabOf(corpus, fit_args, order)]
    /\ fit_pc' = "refitted"
    /\ UNCHANGED <<corpus, fit_args, first_fit>>

FitIdle ==
    /\ corpus = <<>>
    /\ fit_args = FitArgs(DedupMaxFeatures, DedupNgramRange, DedupMinDf)
    /\ first_fit = NotFitted
    /\ second_fit = NotFitted
    /\ fit_pc = "idle"

(***************************************************************************)
(* pipeline.py: run_pipeline and _scrape_article.  A title is a string; a  *)
(* summary and a text are None or Str(s); urls are numbered as above.  A   *)
(* page stands for the html get_text returned, by what the extractors make *)
(* of it: title is extract_title(html), body is extract_main_text(html),   *)
(* paywall is looks_like_login_or_paywall(html), and broken names the      *)
(* extractor that raises on it.                                            *)
(***************************************************************************)
Article(source, title, u, summary) ==
    [ source |-> source, title |-> title, url |-> u, summary |-> summary,
      text |-> None ]

\* bool(v) for v a string or None
Truthy(v) == v.kind = "str" /\ v.s # ""

\* the first position where s holds two blanks in a row, 0 when there is none
DoubleBlankAt(s) ==
    LET at == { i \in 1..(Len(s) - 1) : SubSeq(s, i, i + 1) = "  " }
    IN  IF at = {} THEN 0 ELSE CHOOSE i \in at : \A j \in at : i <= j

\* normalize_text: re.sub(r"\s+", " ", text).strip(), blanks being the only
\* whitespace of the model's texts
RECURSIVE normalize_text(_)
normalize_text(text) ==
    IF DoubleBlankAt(text) # 0
    THEN normalize_text(SubSeq(text, 1, DoubleBlankAt(text))
                        \o SubSeq(text, DoubleBlankAt(text) + 2, Len(text)))
    ELSE Strip(text)

\* extract_text_from_html_fragment: the text between the tags, stripped
RECURSIVE extract_text_from_html_fragment(_)
extract_text_from_html_fragment(fragment) ==
    IF Contains(fragment, "<") /\ Contains(After(fragment, "<"), ">")
    THEN extract_text_from_html_fragment(
             Before(fragment, "<") \o " " \o After(After(fragment, "<"), ">"))
    ELSE Strip(fragment)

\* len(text.strip()) < 120
PaywallTextChars == 120

\* lines 34-40: get_text returned nothing
ScrapeUnfetched(a) ==
    IF Truthy(a.summary)
    THEN [a EXCEPT !.text = Str(normalize_text(extract_text_from_html_fragment(a.summary.s)))]
    ELSE a

\* lines 41-43
ScrapedTitle(a, page) ==
    IF a.title = "" /\ Truthy(page.title) THEN page.title.s ELSE a.title

\* lines 49-53
PaywallFallback(a, title) ==
    IF /\ Truthy(a.summary)
       /\ normalize_text(extract_text_from_html_fragment(a.summary.s)) # ""
    THEN [a EXCEPT !.title = title,
                   !.text = Str(normalize_text(extract_text_from_html_fragment(a.summary.s)))]
    ELSE [a EXCEPT !.title = title, !.text = None]

\* _scrape_article raises: get_text lets an exception through (Propagates),
\* or an extractor that is called raises
ScrapeRaises(a, fetched) ==
    \/ fetched.kind = "raises"
    \/ fetched.kind = "page" /\ fetched.broken = "title" /\ a.title = ""
    \/ fetched.kind = "page" /\ fetched.broken = "body"

\* _scrape_article when it returns
_scrape_article(a, fetched) ==
    IF fetched.kind = "none" THEN ScrapeUnfetched(a)
    ELSE LET title == ScrapedTitle(a, fetched)
             text == normalize_text(fetched.body)
         IN  IF Len(Strip(text)) < PaywallTextChars /\ fetched.paywall
             THEN PaywallFallback(a, title)
             ELSE [a EXCEPT !.title = title, !.text = Str(text)]

\* cfg.raw.get("crawl", {}).get("min_article_text_chars", 200)
DefaultMinTextChars == 200

MinTextChars(configured) ==
    IF configured = <<>> THEN DefaultMinTextChars ELSE configured[1]

PassesQuality_UrlOnly(a, min_chars) == a.url # 0

\* lines 280-283: the article is kept
PassesQuality(a, min_chars) ==
    /\ a.url # 0
    /\ Truthy(a.text)
    /\ Len(Strip(a.text.s)) >= min_chars

\* the keys run_pipeline reads with cfg.raw[...], by the place of the read:
\* lines 84-111
EarlyKeys ==
    { "http", "concurrency", "rate_limit", "retry",
      "rate_limit.max_requests_per_period", "rate_limit.period_seconds",
      "concurrency.max_in_flight_requests", "retry.max_attempts",
      "retry.base_delay_seconds", "retry.max_delay_seconds",
      "http.max_connections" }

\* lines 382-383
ClientKeys == { "http.user_agent", "http.timeout_seconds" }

\* line 337
DedupKeys == { "dedup", "dedup.similarity_threshold" }

RequiredKeys == EarlyKeys \cup ClientKeys \cup DedupKeys

\* "": every key is there
NoKeyMissing == ""

\* lines 75-82
SourceGroups == { "sources", "breaking_sources", "all" }

\* sources.yaml: two enabled sources, one with a feed, the other, a
\* breaking source, with a feed and a seed page
SourcesYaml ==
    [ sources |-> << [id |-> "s1", rss_urls |-> 1, crawl_urls |-> 0] >>,
      breaking_sources |-> << [id |-> "s2", rss_urls |-> 1, crawl_urls |-> 1] >> ]

\* lines 75-80
ActiveSources(group) ==
    IF group = "sources" THEN SourcesYaml.sources
    ELSE IF group = "breaking_sources" THEN SourcesYaml.breaking_sources
    ELSE SourcesYaml.sources \o SourcesYaml.breaking_sources

\* the sources of the group that have a feed, in their order
FeedSources(group) == SelectSeq(ActiveSources(group), LAMBDA s : s.rss_urls > 0)

\* the ids of the sources of the group that have a seed page
SeedSources(group) ==
    { ActiveSources(group)[i].id :
         i \in { j \in 1..Len(ActiveSources(group)) :
                    ActiveSources(group)[j].crawl_urls > 0 } }

NotRaised == [by |-> "", error |-> ""]

Raised(by, error) == [by |-> by, error |-> error]

(***************************************************************************)
(* SpecRun: one call of run_pipeline with persist=False, no skip_urls and  *)
(* no recent window.  The feeds are pulled one after the other, the seed   *)
(* pages and the articles each by a task of its own, in any order.         *)
(***************************************************************************)
LongBody == "rates rose rates rose rates rose rates rose rates rose rates rose rates rose rates rose rates rose rates rose rates rose rates rose"

LongerBody == "rates rose rates rose rates rose rates rose rates rose rates rose rates rose rates rose rates rose rates rose rates rose rates rose rates rose rates rose rates rose rates rose rates rose rates rose rates rose"

LongSummary == "<p>fed raised fed raised fed raised fed raised fed raised fed raised fed raised fed raised fed raised fed raised fed raised fed raised fed raised fed raised fed raised fed raised fed raised fed raised fed raised</p>"

Summaries == { None, Str("<p> </p>"), Str("<p>a brief  summary</p>"), Str(LongSummary) }

\* the url of the entry of the feed of a source, and of the link its seed
\* page yields
FeedUrlOf(sid) == IF sid = "s1" THEN 1 ELSE 2

SeedUrlOf(sid) == IF sid = "s1" THEN 3 ELSE 4

\* what one call of fetch_rss_entries gives: the entries, or the exception
\* feedparser.parse raised
FeedOutcomes(sid) ==
    { [raises |-> TRUE, entries |-> <<>>], [raises |-> FALSE, entries |-> <<>>] }
    \cup { [raises |-> FALSE,
            entries |-> <<Article(sid, "Feed title", FeedUrlOf(sid), sm)>>] :
              sm \in Summaries }

\* what crawl_seed meets: get_text gives nothing, get_text or the discovery
\* raises, or the discovery gives the links
SeedOutcomes(sid) ==
    { [kind |-> "none", links |-> <<>>], [kind |-> "raises", links |-> <<>>],
      [kind |-> "links", links |-> <<Article(sid, "", SeedUrlOf(sid), None)>>],
      [kind |-> "links", links |-> <<Article(sid, "", 1, None)>>] }

Page(title, body, paywall, broken) ==
    [ kind |-> "page", title |-> title, body |-> body, paywall |-> paywall,
      broken |-> broken ]

\* what get_text gives for an article
Fetched ==
    { [kind |-> "none"], [kind |-> "raises"],
      Page(Str("Page title"), LongerBody, FALSE, "none"),
      Page(None, LongBody, TRUE, "none"),
      Page(Str("Page title"), "sign  in to read", TRUE, "none"),
      Page(None, "too short", FALSE, "none"),
      Page(None, "", TRUE, "title"),
      Page(Str("Page title"), LongerBody, FALSE, "body") }

RunInit ==
    /\ source_group \in SourceGroups \cup {"favourites"}
    /\ missing_key \in {NoKeyMissing} \cup RequiredKeys
    /\ min_text_chars = 0
    /\ run_pc = "start"
    /\ net = {}
    /\ feed_idx = 0
    /\ run_rss = <<>>
    /\ run_discovered = <<>>
    /\ crawl_pending = {}
    /\ run_merged = <<>>
    /\ scrape_pending = {}
    /\ scraped = <<>>
    /\ failures = {}
    /\ fetched_of = <<>>
    /\ raised = NotRaised
    /\ run_out = <<>>

\* lines 70-111: the source group and the first configuration reads
Configure ==
    /\ run_pc = "start"
    /\ IF source_group \notin SourceGroups
       THEN run_pc' = "raised" /\ raised' = Raised("source_group", "ValueError")
       ELSE IF missing_key \in EarlyKeys
       THEN run_pc' = "raised" /\ raised' = Raised("config", "KeyError")
       ELSE run_pc' = "rss" /\ UNCHANGED raised
    /\ UNCHANGED <<fetched_of, source_group, missing_key, min_text_chars, net, feed_idx,
                   run_rss, run_discovered, crawl_pending, run_merged,
                   scrape_pending, scraped, failures, run_out>>

\* lines 117-125: the next feed is pulled
PullFeed(outcome) ==
    LET sid == FeedSources(source_group)[feed_idx + 1].id
    IN  /\ net' = net \cup {<<"feed", sid>>}
        /\ feed_idx' = feed_idx + 1
        /\ IF outcome.raises
           THEN /\ run_pc' = "raised"
                /\ raised' = Raised("feed", "Exception")
                /\ failures' = failures \cup {<<"feed", sid>>}
                /\ UNCHANGED run_rss
           ELSE /\ run_rss' = run_rss \o outcome.entries
                /\ UNCHANGED <<run_pc, raised, failures>>
        /\ UNCHANGED <<fetched_of, source_group, missing_key, min_text_chars,
                       run_discovered, crawl_pending, run_merged, scrape_pending,
                       scraped, run_out>>

PullNextFeed ==
    /\ run_pc = "rss"
    /\ feed_idx < Len(FeedSources(source_group))
    /\ \E outcome \in FeedOutcomes(FeedSources(source_group)[feed_idx + 1].id) :
          PullFeed(outcome)

\* lines 153 and 377-388: the session and the client; the crawl tasks are
\* made (lines 193-204)
OpenClient ==
    /\ run_pc = "rss"
    /\ feed_idx = Len(FeedSources(source_group))
    /\ IF missing_key \in ClientKeys
       THEN /\ run_pc' = "raised" /\ raised' = Raised("config", "KeyError")
            /\ UNCHANGED crawl_pending
       ELSE /\ run_pc' = "crawl" /\ crawl_pending' = SeedSources(source_group)
            /\ UNCHANGED raised
    /\ UNCHANGED <<fetched_of, source_group, missing_key, min_text_chars, net, feed_idx,
                   run_rss, run_discovered, run_merged, scrape_pending, scraped,
                   failures, run_out>>

\* lines 163-191: one crawl task, its failure swallowed
CrawlSeed(sid, outcome) ==
    /\ run_pc = "crawl"
    /\ sid \in crawl_pending
    /\ crawl_pending' = crawl_pending \ {sid}
    /\ net' = net \cup {<<"seed", sid>>}
    /\ run_discovered' = run_discovered \o outcome.links
    /\ failures' = IF outcome.kind = "links" THEN failures
                   ELSE failures \cup {<<"seed", sid>>}
    /\ UNCHANGED <<fetched_of, source_group, missing_key, min_text_chars, run_pc,
                   feed_idx, run_rss, run_merged, scrape_pending, scraped, raised,
                   run_out>>

\* the arguments of the call: max_items=10, skip_urls=None
RunArgs == [max_items |-> 10, skip_urls |-> {}]

\* lines 127-137 and 209-261 for the candidates gathered
RunCandidates(rss, discovered) ==
    RemoveSkipped(
        ApplyCap(MergeCandidates(RemoveSkipped(UniqueByUrl(rss), RunArgs.skip_urls),
                                 discovered),
                 HardCap(<<>>, RunArgs.max_items)),
        RunArgs.skip_urls)

\* lines 206-274: the crawl tasks are over; nothing to scrape ends the run,
\* otherwise one worker per candidate is started
StartScraping ==
    /\ run_pc = "crawl"
    /\ crawl_pending = {}
    /\ run_merged' = RunCandidates(run_rss, run_discovered)
    /\ IF RunCandidates(run_rss, run_discovered) = <<>>
       THEN run_pc' = "returned" /\ UNCHANGED scrape_pending
       ELSE /\ run_pc' = "scrape"
            /\ scrape_pending' = 1..Len(RunCandidates(run_rss, run_discovered))
    /\ UNCHANGED <<fetched_of, source_group, missing_key, min_text_chars, net, feed_idx,
                   run_rss, run_discovered, crawl_pending, scraped, failures,
                   raised, run_out>>

\* lines 271-274: one worker; gather is called without return_exceptions,
\* so the exception of a worker leaves gather and run_pipeline
Worker(i, fetched) ==
    /\ run_pc = "scrape"
    /\ i \in scrape_pending
    /\ scrape_pending' = scrape_pending \ {i}
    /\ net' = net \cup {<<"article", run_merged[i].url>>}
    /\ fetched_of' = [u \in DOMAIN fetched_of \cup {run_merged[i].url} |->
                         IF u = run_merged[i].url THEN fetched ELSE fetched_of[u]]
    /\ IF ScrapeRaises(run_merged[i], fetched)
       THEN /\ run_pc' = "raised"
            /\ raised' = Raised("scrape", "Exception")
            /\ failures' = failures \cup {<<"scrape", run_merged[i].url>>}
            /\ UNCHANGED scraped
       ELSE /\ scraped' = Append(scraped, _scrape_article(run_merged[i], fetched))
            /\ UNCHANGED <<run_pc, raised, failures>>
    /\ UNCHANGED <<source_group, missing_key, min_text_chars, feed_idx,
                   run_rss, run_discovered, crawl_pending, run_merged, run_out>>

\* crawl.min_article_text_chars as the configuration can set it, <<>>
\* when it does not
MinTextSettings == { <<>>, <<5>>, <<0>> }

\* lines 276-290: the quality gate
QualityGate(configured) ==
    /\ run_pc = "scrape"
    /\ scrape_pending = {}
    /\ min_text_chars' = MinTextChars(configured)
    /\ scraped' = SelectSeq(scraped,
                     LAMBDA a : PassesQuality(a, MinTextChars(configured)))
    /\ run_pc' = IF SelectSeq(scraped,
                        LAMBDA a : PassesQuality(a, MinTextChars(configured))) = <<>>
                 THEN "returned" ELSE "dedup"
    /\ UNCHANGED <<fetched_of, source_group, missing_key, net, feed_idx,
                   run_rss, run_discovered, crawl_pending, run_merged,
                   scrape_pending, failures, raised, run_out>>

\* lines 292-375: enrichment keeps url and text; with no recent window no
\* article is a duplicate; the threshold is read at line 337
DedupAndReturn ==
    /\ run_pc = "dedup"
    /\ IF missing_key \in DedupKeys
       THEN /\ run_pc' = "raised" /\ raised' = Raised("config", "KeyError")
            /\ UNCHANGED run_out
       ELSE /\ run_pc' = "returned" /\ run_out' = scraped
            /\ UNCHANGED raised
    /\ UNCHANGED <<fetched_of, source_group, missing_key, min_text_chars, net, feed_idx,
                   run_rss, run_discovered, crawl_pending, run_merged,
                   scrape_pending, scraped, failures>>

RunIdle ==
    /\ source_group = "sources"
    /\ missing_key = NoKeyMissing
    /\ min_text_chars = 0
    /\ run_pc = "idle"
    /\ net = {}
    /\ feed_idx = 0
    /\ run_rss = <<>>
    /\ run_discovered = <<>>
    /\ crawl_pending = {}
    /\ run_merged = <<>>
    /\ scrape_pending = {}
    /\ scraped = <<>>
    /\ failures = {}
    /\ fetched_of = <<>>
    /\ raised = NotRaised
    /\ run_out = <<>>

(***************************************************************************)
(* SpecPersist: cycles of run_pipeline that run at the same time with      *)
(* persist set, each in its own thread with its own event loop             *)
(* (gui_app.py: fetch_now lines 745-774, the live loop lines 776-812, the  *)
(* breaking loop lines 814-858), and that upsert into the file of the same *)
(* source id (pipeline.py lines 361-364).  upsert_file reads the file      *)
(* (storage.py line 61) and writes it (line 68) with no lock around the    *)
(* two; a thread can be switched out between them.                         *)
(***************************************************************************)
NumCycles == 2

Cycles == 1..NumCycles

PersistUrls == {"u1", "u2", "u3"}

\* the title a cycle scraped; the rows of the file before the cycles have
\* the first title
TitleBy(c) == Str(<<"t0", "t1", "t2", "t3">>[c + 1])

\* the group of one source in df_new
GroupsOf(c) ==
    { <<[url |-> Str(u), title |-> TitleBy(c)]>> : u \in PersistUrls }
    \cup { <<[url |-> Str(u), title |-> TitleBy(c)],
             [url |-> Str(v), title |-> TitleBy(c)]>> :
             u \in PersistUrls, v \in PersistUrls }

PersistInit ==
    /\ file_before \in {<<>>} \cup { upsert_file(<<>>, g, "url") : g \in GroupsOf(0) }
    /\ shared_file = file_before
    /\ up_group \in [Cycles -> UNION { GroupsOf(c) : c \in Cycles }]
    /\ \A c \in Cycles : up_group[c] \in GroupsOf(c)
    \* the urls of one cycle's articles are distinct (pipeline.py lines 209-220)
    /\ \A c \in Cycles : \A i, j \in 1..Len(up_group[c]) :
          up_group[c][i].url = up_group[c][j].url => i = j
    /\ up_old = [c \in Cycles |-> <<>>]
    /\ up_pc = [c \in Cycles |-> "persist"]

\* storage.py lines 59-61: old_df = read_existing(path)
UpsertRead(c) ==
    /\ up_pc[c] = "persist"
    /\ up_old' = [up_old EXCEPT ![c] = read_existing(shared_file)]
    /\ up_pc' = [up_pc EXCEPT ![c] = "read"]
    /\ UNCHANGED <<shared_file, file_before, up_group>>

\* storage.py lines 62-69: concat, drop_duplicates, write_frame
UpsertWrite(c) ==
    /\ up_pc[c] = "read"
    /\ shared_file' = write_frame(CombineWith(up_old[c], up_group[c], "url"))
    /\ up_pc' = [up_pc EXCEPT ![c] = "done"]
    /\ UNCHANGED <<file_before, up_group, up_old>>

PersistIdle ==
    /\ shared_file = <<>>
    /\ file_before = <<>>
    /\ up_group = <<>>
    /\ up_old = <<>>
    /\ up_pc = <<>>

(***************************************************************************)
(* SpecGui: one polling loop of gui_app.py (a thread, lines 776-810) and   *)
(* _drain_queue (the Tk main thread, lines 860-903) over the rolling       *)
(* window.  Each `with self._lock:` block is one step; the two threads     *)
(* interleave between the blocks.  The first loop of _drain_queue (lines   *)
(* 864-872) does not touch the window and is left out.                     *)
(***************************************************************************)
MaxPolls == 3

MaxQueue == 2

\* dedup.compare_window of the configuration
CompareWindow == 2

\* the text a cycle scrapes for a url; u3 has an empty text
TextOfUrl(u) == IF u = "u1" THEN "t1" ELSE IF u = "u2" THEN "t2" ELSE ""

GuiArticle(u) == [url |-> u, text |-> TextOfUrl(u)]

\* what one cycle can return
GuiBatches ==
    { <<GuiArticle(u)>> : u \in {"u1", "u2", "u3"} }
    \cup { <<GuiArticle(u), GuiArticle(v)>> : u, v \in {"u1", "u2", "u3"} }

\* xs[-win:]
LastOf(xs, win) ==
    IF win = 0 THEN xs ELSE SubSeq(xs, Max(1, Len(xs) - win + 1), Len(xs))

GuiInit ==
    /\ gui_recent_texts = <<>>
    /\ gui_recent_urls = <<>>
    /\ gui_q = <<>>
    /\ drain_pc = "idle"
    /\ drain_batch = <<>>
    /\ drain_i = 0
    /\ snap_texts = <<>>
    /\ snap_urls = <<>>
    /\ poll_pc = "idle"
    /\ polls = 0

\* lines 909-911, called at line 797
SnapshotTexts ==
    /\ poll_pc = "idle"
    /\ polls < MaxPolls
    /\ snap_texts' = gui_recent_texts
    /\ poll_pc' = "texts"
    /\ polls' = polls + 1
    /\ UNCHANGED <<gui_recent_texts, gui_recent_urls, gui_q, drain_pc, drain_batch,
                   drain_i, snap_urls>>

\* lines 913-915, called at line 798
SnapshotUrls ==
    /\ poll_pc = "texts"
    /\ snap_urls' = gui_recent_urls
    /\ poll_pc' = "cycle"
    /\ UNCHANGED <<gui_recent_texts, gui_recent_urls, gui_q, drain_pc, drain_batch,
                   drain_i, snap_texts, polls>>

\* lines 787-804: run_pipeline returns arts (<<>> for an empty list or an
\* exception); `if arts: self._q.put(arts)`
CycleReturns(arts) ==
    /\ poll_pc = "cycle"
    /\ Len(gui_q) < MaxQueue
    /\ gui_q' = IF arts # <<>> THEN Append(gui_q, arts) ELSE gui_q
    /\ poll_pc' = "idle"
    /\ UNCHANGED <<gui_recent_texts, gui_recent_urls, drain_pc, drain_batch, drain_i,
                   snap_texts, snap_urls, polls>>

\* line 863: batch = self._q.get_nowait()
DrainGet ==
    /\ drain_pc = "idle"
    /\ gui_q # <<>>
    /\ drain_batch' = Head(gui_q)
    /\ gui_q' = Tail(gui_q)
    /\ drain_i' = 1
    /\ drain_pc' = "append"
    /\ UNCHANGED <<gui_recent_texts, gui_recent_urls, snap_texts, snap_urls, poll_pc,
                   polls>>

\* lines 874-878: one turn of the loop; both lists grow under one hold of
\* the lock
DrainAppend ==
    /\ drain_pc = "append"
    /\ drain_i <= Len(drain_batch)
    /\ IF drain_batch[drain_i].text # "" /\ drain_batch[drain_i].url # ""
       THEN /\ gui_recent_texts' = Append(gui_recent_texts, drain_batch[drain_i].text)
            /\ gui_recent_urls' = Append(gui_recent_urls, drain_batch[drain_i].url)
       ELSE UNCHANGED <<gui_recent_texts, gui_recent_urls>>
    /\ drain_i' = drain_i + 1
    /\ drain_pc' = IF drain_i = Len(drain_batch) THEN "truncate" ELSE "append"
    /\ UNCHANGED <<gui_q, drain_batch, snap_texts, snap_urls, poll_pc, polls>>

\* lines 879-883: both lists are cut under one hold of the lock
DrainTruncate ==
    /\ drain_pc = "truncate"
    /\ IF Len(gui_recent_texts) > CompareWindow
       THEN /\ gui_recent_texts' = LastOf(gui_recent_texts, CompareWindow)
            /\ gui_recent_urls' = LastOf(gui_recent_urls, CompareWindow)
       ELSE UNCHANGED <<gui_recent_texts, gui_recent_urls>>
    /\ drain_pc' = "idle"
    /\ drain_batch' = <<>>
    /\ drain_i' = 0
    /\ UNCHANGED <<gui_q, snap_texts, snap_urls, poll_pc, polls>>

GuiIdle ==
    /\ gui_recent_texts = <<>>
    /\ gui_recent_urls = <<>>
    /\ gui_q = <<>>
    /\ drain_pc = "off"
    /\ drain_batch = <<>>
    /\ drain_i = 0
    /\ snap_texts = <<>>
    /\ snap_urls = <<>>
    /\ poll_pc = "off"
    /\ polls = 0

(***************************************************************************)
(* SpecLoop: run_pipeline from the enriched articles to its return value   *)
(* (pipeline.py lines 306-375): the recent window, one call of             *)
(* dedup_against_recent per article, the upsert of every source's group.   *)
(* The call in progress is the frame of SpecDedup (candidate_text ...      *)
(* dedup_pc).  A file is the list of the articles stored in it; the texts  *)
(* and urls of the model read back from a CSV file as they were written.   *)
(***************************************************************************)
\* sorted(out_dir.glob("news_*.csv"))
SourceFiles == <<"s1", "s2">>

SourceOfUrl(u) == IF u = "u2" THEN "s2" ELSE "s1"

LoopArticle(u, text) ==
    [url |-> u, text |-> text, source |-> SourceOfUrl(u),
     is_duplicate |-> FALSE, duplicate_of_url |-> "None"]

\* "ab cd", "ab ef", "ef x 9"
AbCd == <<"a", "b", " ", "c", "d">>

AbEf == <<"a", "b", " ", "e", "f">>

EfX9 == <<"e", "f", " ", "x", " ", "9">>

\* the enriched articles of a cycle: one or two, with distinct urls (lines
\* 209-220) and a text that passed the quality gate (lines 278-284)
EnrichedLists ==
    { <<LoopArticle(u, t)>> : u \in {"u1", "u2", "u3"}, t \in {AbCd, AbEf} }
    \cup { <<LoopArticle(r[1], r[3]), LoopArticle(r[2], r[4])>> :
             r \in { q \in {"u1", "u2", "u3"} \X {"u1", "u2", "u3"}
                           \X {AbCd, AbEf} \X {AbCd, AbEf} : q[1] # q[2] } }

\* the windows a caller passes: none, or index-aligned texts and urls
GivenWindows ==
    { <<>>, <<LoopArticle("u4", EfX9)>>, <<LoopArticle("u1", AbCd)>>,
      <<LoopArticle("u4", EfX9), LoopArticle("u5", AbEf)>> }

\* the files of the output directory when the cycle starts
StoredDirs ==
    { [s \in {"s1", "s2"} |-> IF s = "s1" THEN f1 ELSE f2] :
        f1 \in { <<>>, <<LoopArticle("u1", AbCd)>>,
                 <<LoopArticle("u3", AbEf), LoopArticle("u4", EfX9),
                   LoopArticle("u1", AbCd)>> },
        f2 \in { <<>>, <<LoopArticle("u2", AbEf)>> } }

TextsOf(articles) == [i \in 1..Len(articles) |-> articles[i].text]

UrlsOf(articles) == [i \in 1..Len(articles) |-> articles[i].url]

\* (the storage read whenever no window was passed)
ReadsStorage_Unguarded(p, texts, urls) == texts = <<>> /\ urls = <<>>

\* line 311: if persist and not use_recent_texts and not use_recent_urls
ReadsStorage(p, texts, urls) == p /\ texts = <<>> /\ urls = <<>>

\* df.tail(win), for win > 0
DfTail(rows, win) == SubSeq(rows, Max(1, Len(rows) - win + 1), Len(rows))

\* lines 318-327: the last win rows of every file that exists and is not
\* empty, in the order of the file names
RECURSIVE RecentAcc(_, _, _)
RecentAcc(dir, names, win) ==
    IF names = <<>> THEN <<>>
    ELSE DfTail(dir[Head(names)], win) \o RecentAcc(dir, Tail(names), win)

\* lines 308-334: the window of the cycle, as the list of its entries
WindowOf(p, texts, urls, dir, win) ==
    IF ReadsStorage(p, texts, urls) /\ RecentAcc(dir, SourceFiles, win) # <<>>
    THEN LastOf(RecentAcc(dir, SourceFiles, win), win)
    ELSE [i \in 1..Len(texts) |-> LoopArticle(urls[i], texts[i])]

\* the files read_existing is called on at line 320
FilesRead(p, texts, urls, dir) ==
    IF ReadsStorage(p, texts, urls)
    THEN { s \in DOMAIN dir : dir[s] # <<>> }
    ELSE {}

\* (the window grown by the articles already judged)
WindowArg_Growing(window, sofar) == window \o sofar

\* lines 341-342: recent_texts=use_recent_texts, recent_urls=use_recent_urls;
\* sofar is what the articles already judged would add
WindowArg(window, sofar) == window

\* lines 345-348
Marked(a, r) ==
    IF r.is_duplicate
    THEN [a EXCEPT !.is_duplicate = TRUE, !.duplicate_of_url = r.duplicate_of_url]
    ELSE a

\* lines 361-364: the file of source s after the upsert of its group
FileAfter(file, articles, s) ==
    IF SelectSeq(articles, LAMBDA a : a.source = s) = <<>> THEN file
    ELSE DropDuplicates(file \o SelectSeq(articles, LAMBDA a : a.source = s), "url")

LoopInit ==
    /\ persist \in BOOLEAN
    /\ \E w \in GivenWindows : given_texts = TextsOf(w) /\ given_urls = UrlsOf(w)
    /\ data_dir \in StoredDirs
    /\ dir_before = data_dir
    /\ similarity_threshold \in { <<1, 2>>, <<9, 10>> }
    /\ enriched \in EnrichedLists
    /\ use_recent_texts = <<>>
    /\ use_recent_urls = <<>>
    /\ deduped = <<>>
    /\ files_read = {}
    /\ files_written = {}
    /\ loop_pc = "window"
    /\ loop_out = <<>>

\* lines 308-334
DeriveWindow ==
    /\ loop_pc = "window"
    /\ use_recent_texts' =
          TextsOf(WindowOf(persist, given_texts, given_urls, data_dir, CompareWindow))
    /\ use_recent_urls' =
          UrlsOf(WindowOf(persist, given_texts, given_urls, data_dir, CompareWindow))
    /\ files_read' = FilesRead(persist, given_texts, given_urls, data_dir)
    /\ loop_pc' = "loop"
    /\ UNCHANGED <<persist, given_texts, given_urls, data_dir, dir_before,
                   similarity_threshold, enriched, deduped, files_written, loop_out>>
    /\ UNCHANGED dedupVars

\* lines 338-344: the call for the next article
LoopCall ==
    /\ loop_pc = "loop"
    /\ dedup_pc = "idle"
    /\ Len(deduped) < Len(enriched)
    /\ candidate_text' = enriched[Len(deduped) + 1].text
    /\ candidate_url' = enriched[Len(deduped) + 1].url
    /\ recent_texts' = WindowArg(use_recent_texts, TextsOf(deduped))
    /\ recent_urls' = WindowArg(use_recent_urls, UrlsOf(deduped))
    /\ threshold' = similarity_threshold
    /\ dedup_pc' = "call"
    /\ UNCHANGED <<model, X, dedup_result>>
    /\ UNCHANGED loopVars

\* lines 345-348: the article is appended, marked if it is a duplicate; an
\* exception of the call leaves run_pipeline
LoopCollect ==
    /\ loop_pc = "loop"
    /\ dedup_pc = "returned"
    /\ IF dedup_result.raised # ""
       THEN loop_pc' = "raised" /\ UNCHANGED deduped
       ELSE /\ deduped' = Append(deduped, Marked(enriched[Len(deduped) + 1], dedup_result))
            /\ UNCHANGED loop_pc
    /\ candidate_text' = <<>>
    /\ candidate_url' = ""
    /\ recent_texts' = <<>>
    /\ recent_urls' = <<>>
    /\ threshold' = <<0, 1>>
    /\ model' = NoModel
    /\ X' = <<>>
    /\ dedup_result' = NoResult
    /\ dedup_pc' = "idle"
    /\ UNCHANGED <<persist, given_texts, given_urls, data_dir, dir_before,
                   similarity_threshold, enriched, use_recent_texts, use_recent_urls,
                   files_read, files_written, loop_out>>

\* lines 351-375: the upserts, if persist is set, and the return
PersistAndReturn ==
    /\ loop_pc = "loop"
    /\ dedup_pc = "idle"
    /\ Len(deduped) = Len(enriched)
    /\ IF persist
       THEN /\ data_dir' = [s \in DOMAIN data_dir |-> FileAfter(data_dir[s], deduped, s)]
            /\ files_written' = { deduped[i].source : i \in 1..Len(deduped) }
       ELSE UNCHANGED <<data_dir, files_written>>
    /\ loop_out' = deduped
    /\ loop_pc' = "returned"
    /\ UNCHANGED <<persist, given_texts, given_urls, dir_before, similarity_threshold,
                   enriched, use_recent_texts, use_recent_urls, deduped, files_read>>
    /\ UNCHANGED dedupVars

LoopIdle ==
    /\ persist = FALSE
    /\ given_texts = <<>>
    /\ given_urls = <<>>
    /\ data_dir = <<>>
    /\ dir_before = <<>>
    /\ similarity_threshold = <<0, 1>>
    /\ enriched = <<>>
    /\ use_recent_texts = <<>>
    /\ use_recent_urls = <<>>
    /\ deduped = <<>>
    /\ files_read = {}
    /\ files_written = {}
    /\ loop_pc = "off"
    /\ loop_out = <<>>

(***************************************************************************)
(* The specifications.                                                     *)
(***************************************************************************)
Init ==
    /\ HttpInit
    /\ RRIdle
    /\ CycleIdle
    /\ DedupIdle
    /\ StoreIdle
    /\ UrlIdle
    /\ DiscoverIdle
    /\ FitIdle
    /\ RunIdle
    /\ PersistIdle
    /\ GuiIdle
    /\ LoopIdle

NotHttp ==
    UNCHANGED <<rrVars, cycleVars, dedupVars, storeVars, urlVars, discVars,
                fitVars, runVars, persistVars, guiVars, loopVars>>

Next ==
    \/ Tick /\ NotHttp
    \/ \E t \in Tasks : RLCheck(t) /\ NotHttp
    \/ \E t \in Tasks : RLRecord(t) /\ NotHttp
    \/ \E t \in Tasks : RLWake(t) /\ NotHttp
    \/ \E t \in Tasks : HumanWake(t) /\ NotHttp
    \/ \E t \in Tasks : SemAcquire(t) /\ NotHttp
    \/ \E t \in Tasks : \E r \in Responses : Response(t, r) /\ NotHttp
    \/ \E t \in Tasks : BackoffWake(t) /\ NotHttp

Spec == Init /\ [][Next]_vars

\* the steps of the fetch task t
TaskNext(t) ==
    \/ RLCheck(t) /\ NotHttp
    \/ RLRecord(t) /\ NotHttp
    \/ RLWake(t) /\ NotHttp
    \/ HumanWake(t) /\ NotHttp
    \/ SemAcquire(t) /\ NotHttp
    \/ \E r \in Responses : Response(t, r) /\ NotHttp
    \/ BackoffWake(t) /\ NotHttp

\* the event loop runs every task that is ready to run, every GET ends (at
\* the latest by its timeout), and the clock of the loop goes on
Fairness ==
    /\ WF_vars(Tick /\ NotHttp)
    /\ \A t \in Tasks : WF_vars(TaskNext(t))

SpecFair == Init /\ [][Next]_vars /\ Fairness

InitRR ==
    /\ RRInit
    /\ HttpIdle
    /\ CycleIdle
    /\ DedupIdle
    /\ StoreIdle
    /\ UrlIdle
    /\ DiscoverIdle
    /\ FitIdle
    /\ RunIdle
    /\ PersistIdle
    /\ GuiIdle
    /\ LoopIdle

NotRR ==
    UNCHANGED <<httpVars, cycleVars, dedupVars, storeVars, urlVars,
                discVars, fitVars, runVars, persistVars, guiVars, loopVars>>

NextRR ==
    \/ RRCall /\ NotRR

SpecRR == InitRR /\ [][NextRR]_vars

InitCycle ==
    /\ CycleInit
    /\ HttpIdle
    /\ RRIdle
    /\ DedupIdle
    /\ StoreIdle
    /\ UrlIdle
    /\ DiscoverIdle
    /\ FitIdle
    /\ RunIdle
    /\ PersistIdle
    /\ GuiIdle
    /\ LoopIdle

NotCycle ==
    UNCHANGED <<httpVars, rrVars, dedupVars, storeVars, urlVars, discVars,
                fitVars, runVars, persistVars, guiVars, loopVars>>

NextCycle ==
    \/ Merge /\ NotCycle
    \/ Cap /\ NotCycle
    \/ SkipFilter /\ NotCycle

SpecCycle == InitCycle /\ [][NextCycle]_vars

InitDedup ==
    /\ DedupInit
    /\ HttpIdle
    /\ RRIdle
    /\ CycleIdle
    /\ StoreIdle
    /\ UrlIdle
    /\ DiscoverIdle
    /\ FitIdle
    /\ RunIdle
    /\ PersistIdle
    /\ GuiIdle
    /\ LoopIdle

NotDedup ==
    UNCHANGED <<httpVars, rrVars, cycleVars, storeVars, urlVars, discVars,
                fitVars, runVars, persistVars, guiVars, loopVars>>

NextDedup ==
    \/ DedupNothingToCompare /\ NotDedup
    \/ DedupFit /\ NotDedup
    \/ DedupTransform /\ NotDedup
    \/ DedupVerdict /\ NotDedup

SpecDedup == InitDedup /\ [][NextDedup]_vars

InitStore ==
    /\ StoreInit
    /\ HttpIdle
    /\ RRIdle
    /\ CycleIdle
    /\ DedupIdle
    /\ UrlIdle
    /\ DiscoverIdle
    /\ FitIdle
    /\ RunIdle
    /\ PersistIdle
    /\ GuiIdle
    /\ LoopIdle

NotStore ==
    UNCHANGED <<httpVars, rrVars, cycleVars, dedupVars, urlVars, discVars,
                fitVars, runVars, persistVars, guiVars, loopVars>>

NextStore ==
    \/ \E batch \in Batches : Upsert(batch) /\ NotStore

SpecStore == InitStore /\ [][NextStore]_vars

InitUrl ==
    /\ UrlInit
    /\ HttpIdle
    /\ RRIdle
    /\ CycleIdle
    /\ DedupIdle
    /\ StoreIdle
    /\ DiscoverIdle
    /\ FitIdle
    /\ RunIdle
    /\ PersistIdle
    /\ GuiIdle
    /\ LoopIdle

NotUrl ==
    UNCHANGED <<httpVars, rrVars, cycleVars, dedupVars, storeVars,
                discVars, fitVars, runVars, persistVars, guiVars, loopVars>>

NextUrl ==
    \/ Normalize /\ NotUrl
    \/ NormalizeAgain /\ NotUrl

SpecUrl == InitUrl /\ [][NextUrl]_vars

InitDiscover ==
    /\ DiscoverInit
    /\ HttpIdle
    /\ RRIdle
    /\ CycleIdle
    /\ DedupIdle
    /\ StoreIdle
    /\ UrlIdle
    /\ FitIdle
    /\ RunIdle
    /\ PersistIdle
    /\ GuiIdle
    /\ LoopIdle

NotDiscover ==
    UNCHANGED <<httpVars, rrVars, cycleVars, dedupVars, storeVars, urlVars,
                fitVars, runVars, persistVars, guiVars, loopVars>>

NextDiscover ==
    \/ ScanAnchor /\ NotDiscover
    \/ RankLinks /\ NotDiscover

SpecDiscover == InitDiscover /\ [][NextDiscover]_vars

InitFit ==
    /\ FitInit
    /\ HttpIdle
    /\ RRIdle
    /\ CycleIdle
    /\ DedupIdle
    /\ StoreIdle
    /\ UrlIdle
    /\ DiscoverIdle
    /\ RunIdle
    /\ PersistIdle
    /\ GuiIdle
    /\ LoopIdle

NotFit ==
    UNCHANGED <<httpVars, rrVars, cycleVars, dedupVars, storeVars, urlVars,
                discVars, runVars, persistVars, guiVars, loopVars>>

NextFit ==
    \/ Fit /\ NotFit
    \/ FitAgain /\ NotFit

SpecFit == InitFit /\ [][NextFit]_vars

InitRun ==
    /\ RunInit
    /\ HttpIdle
    /\ RRIdle
    /\ CycleIdle
    /\ DedupIdle
    /\ StoreIdle
    /\ UrlIdle
    /\ DiscoverIdle
    /\ FitIdle
    /\ PersistIdle
    /\ GuiIdle
    /\ LoopIdle

NotRun ==
    UNCHANGED <<httpVars, rrVars, cycleVars, dedupVars, storeVars, urlVars,
                discVars, fitVars, persistVars, guiVars, loopVars>>

NextRun ==
    \/ Configure /\ NotRun
    \/ PullNextFeed /\ NotRun
    \/ OpenClient /\ NotRun
    \/ \E sid \in crawl_pending : \E outcome \in SeedOutcomes(sid) : CrawlSeed(sid, outcome) /\ NotRun
    \/ StartScraping /\ NotRun
    \/ \E i \in scrape_pending : \E fetched \in Fetched : Worker(i, fetched) /\ NotRun
    \/ \E configured \in MinTextSettings : QualityGate(configured) /\ NotRun
    \/ DedupAndReturn /\ NotRun

SpecRun == InitRun /\ [][NextRun]_vars

InitPersist ==
    /\ PersistInit
    /\ HttpIdle
    /\ RRIdle
    /\ CycleIdle
    /\ DedupIdle
    /\ StoreIdle
    /\ UrlIdle
    /\ DiscoverIdle
    /\ FitIdle
    /\ RunIdle
    /\ GuiIdle
    /\ LoopIdle

NotPersist ==
    UNCHANGED <<httpVars, rrVars, cycleVars, dedupVars, storeVars, urlVars,
                discVars, fitVars, runVars, guiVars, loopVars>>

NextPersist ==
    \/ \E c \in Cycles : UpsertRead(c) /\ NotPersist
    \/ \E c \in Cycles : UpsertWrite(c) /\ NotPersist

SpecPersist == InitPersist /\ [][NextPersist]_vars

InitGui ==
    /\ GuiInit
    /\ HttpIdle
    /\ RRIdle
    /\ CycleIdle
    /\ DedupIdle
    /\ StoreIdle
    /\ UrlIdle
    /\ DiscoverIdle
    /\ FitIdle
    /\ RunIdle
    /\ PersistIdle
    /\ LoopIdle

NotGui ==
    UNCHANGED <<httpVars, rrVars, cycleVars, dedupVars, storeVars, urlVars,
                discVars, fitVars, runVars, persistVars, loopVars>>

NextGui ==
    \/ SnapshotTexts /\ NotGui
    \/ SnapshotUrls /\ NotGui
    \/ \E arts \in GuiBatches \cup {<<>>} : CycleReturns(arts) /\ NotGui
    \/ DrainGet /\ NotGui
    \/ DrainAppend /\ NotGui
    \/ DrainTruncate /\ NotGui

SpecGui == InitGui /\ [][NextGui]_vars

InitLoop ==
    /\ LoopInit
    /\ HttpIdle
    /\ RRIdle
    /\ CycleIdle
    /\ DedupIdle
    /\ StoreIdle
    /\ UrlIdle
    /\ DiscoverIdle
    /\ FitIdle
    /\ RunIdle
    /\ PersistIdle
    /\ GuiIdle

NotLoop ==
    UNCHANGED <<httpVars, rrVars, cycleVars, storeVars, urlVars, discVars,
                fitVars, runVars, persistVars, guiVars>>

NextLoop ==
    \/ DeriveWindow /\ NotLoop
    \/ LoopCall /\ NotLoop
    \/ DedupNothingToCompare /\ UNCHANGED loopVars /\ NotLoop
    \/ DedupFit /\ UNCHANGED loopVars /\ NotLoop
    \/ DedupTransform /\ UNCHANGED loopVars /\ NotLoop
    \/ DedupVerdict /\ UNCHANGED loopVars /\ NotLoop
    \/ LoopCollect /\ NotLoop
    \/ PersistAndReturn /\ NotLoop

SpecLoop == InitLoop /\ [][NextLoop]_vars

(***************************************************************************)
(* Properties of the fetch tasks (Spec).                                   *)
(***************************************************************************)
\* the admissions of domain d that are at most PeriodSeconds old
InWindow(d) ==
    { i \in 1..Len(domain_times[d]) : domain_times[d][i] <= PeriodSeconds }

\* the callers that are between the check and the record of domain d
Recording(d) == { t \in Tasks : pc[t] = "record" /\ DomainOf(url[t]) = d }

\* C1: at every instant and for every domain, the number of recorded
\* admissions whose timestamp lies in [now - periodSeconds, now] is at most
\* maxRequestsPerPeriod, and at most one caller at a time is inside the
\* check-and-record step of a domain.
C1_RateLimitWindow ==
    \A d \in Domains :
        /\ Cardinality(InWindow(d)) <= MaxRequestsPerPeriod
        /\ Cardinality(Recording(d)) <= 1

\* a caller of a.com sleeps in acquire on its first attempt, because another
\* caller's admission fills the window
C1_Witness ==
    \E t1, t2 \in Tasks :
        /\ t1 # t2
        /\ DomainOf(url[t1]) = DomainOf(url[t2])
        /\ pc[t1] = "rl_sleep" /\ attempt[t1] = 1 /\ sleep_left[t1] > 0
        /\ Cardinality(InWindow(DomainOf(url[t1]))) = MaxRequestsPerPeriod

\* the tasks whose GET is in flight
InFlight == { t \in Tasks : pc[t] = "get" }

\* C2: the number of GETs in flight at the same time never exceeds
\* max_in_flight_requests.
C2_InFlightBounded == Cardinality(InFlight) <= MaxInFlight

\* every slot is taken by a GET in flight while another task waits for one
C2_Witness ==
    /\ Cardinality(InFlight) = MaxInFlight
    /\ \E t \in Tasks : pc[t] = "sem"

\* C3: when the first k-1 attempts each ended in a transient failure and
\* attempt k answers a status below 400 outside retryStatuses, get_text
\* returns the body of that answer after exactly k GETs.
C3_RetryThenSuccess ==
    \A t \in Observed :
        (/\ resp[t].err = "none"
         /\ resp[t].status \in Statuses
         /\ resp[t].status < 400
         /\ resp[t].status \notin RetryStatuses)
        => /\ pc[t] = "done"
           /\ result[t] = resp[t].body
           /\ gets[t] = transients[t] + 1
           /\ gets[t] <= MaxAttempts

\* two transient failures, then the body of the third attempt
C3_Witness ==
    \E t \in Observed :
        /\ pc[t] = "done" /\ transients[t] = 2 /\ gets[t] = 3
        /\ resp[t].status = 200 /\ result[t] = resp[t].body

\* C4: an answer with a status >= 400 outside retryStatuses ends get_text at
\* once with no text: no further GET, no backoff sleep after it; a first
\* answer of 404 costs exactly one attempt.
C4_TerminalNoRetry ==
    \A t \in Observed :
        (/\ resp[t].err = "none"
         /\ resp[t].status >= 400
         /\ resp[t].status \notin RetryStatuses)
        => /\ pc[t] = "done"
           /\ result[t] = "None"
           /\ gets[t] = transients[t] + 1
           /\ sleeps[t] = transients[t]

\* a first answer of 404: one GET, no sleep, no text
C4_Witness ==
    \E t \in Observed :
        /\ pc[t] = "done" /\ resp[t].status = 404
        /\ gets[t] = 1 /\ sleeps[t] = 0 /\ result[t] = "None"

\* C5: when every attempt ends in a transient failure, get_text issues
\* exactly maxAttempts GETs, sleeps a backoff after each but the last, and
\* returns no text; a transient failure is never raised to the caller.
C5_AllTransient ==
    \A t \in Observed :
        /\ (pc[t] = "done" /\ gets[t] >= 1 /\ transients[t] = gets[t])
           => /\ gets[t] = MaxAttempts
              /\ sleeps[t] = MaxAttempts - 1
              /\ result[t] = "None"
        /\ (resp[t].err \in {"ClientError", "TimeoutError"}
               \/ (resp[t].err = "none" /\ resp[t].status \in RetryStatuses))
           => result[t] # "raised"

\* maxAttempts transient failures in a row
C5_Witness ==
    \E t \in Observed :
        /\ pc[t] = "done" /\ transients[t] = MaxAttempts
        /\ resp[t].err = "TimeoutError" /\ result[t] = "None"

(***************************************************************************)
(* Properties of _round_robin_by_source (SpecRR).                          *)
(***************************************************************************)
\* the number of candidates of source sid in the result
Selected(sid) == Len(Bucket(rr_out, sid))

\* the position of the first candidate of source sid in the input
FirstSeen(sid) ==
    CHOOSE i \in 1..Len(rr_items) :
        /\ rr_items[i].source = sid
        /\ \A j \in 1..(i - 1) : rr_items[j].source # sid

Contributing == { rr_items[i].source : i \in 1..Len(rr_items) }

\* C6: when the merged candidate count exceeds the cap, fair capping returns
\* exactly cap candidates; the candidates selected from a source are a prefix
\* of its bucket; a source has fewer selected candidates than another source
\* minus one only when all its candidates are selected, and fewer than another
\* source at all only when it is exhausted or was first seen later; sources
\* contributing 10, 1 and 1 candidates capped to 3 give one candidate each.
C6_FairCap ==
    rr_pc = "returned" =>
        /\ Len(rr_out) = rr_limit
        /\ \A s \in Contributing :
              Bucket(rr_out, s) = SubSeq(Bucket(rr_items, s), 1, Selected(s))
        /\ \A i \in 1..Len(rr_out) : rr_out[i].source \in Contributing
        /\ \A s, t \in Contributing :
              /\ Selected(s) < Selected(t) - 1
                    => Selected(s) = Len(Bucket(rr_items, s))
              /\ Selected(s) < Selected(t)
                    => \/ Selected(s) = Len(Bucket(rr_items, s))
                       \/ FirstSeen(s) > FirstSeen(t)
        /\ (Len(rr_items) = 12 /\ rr_limit = 3)
              => \A s \in Contributing : Selected(s) = 1

\* 10, 1 and 1 candidates capped to 3, the large source first in the list
C6_Witness ==
    /\ rr_pc = "returned"
    /\ Len(rr_items) = 12 /\ rr_limit = 3
    /\ rr_items[1].source = "a" /\ rr_items[2].source = "a"
    /\ Selected("a") = 1 /\ Selected("b") = 1 /\ Selected("c") = 1

(***************************************************************************)
(* Properties of the merge and cap stage (SpecCycle).                      *)
(***************************************************************************)
CycleOver == cycle_pc \in {"scrape", "returned"}

\* the least of the positive numbers of a set, NoCap when there is none
LeastPositive(S) ==
    LET pos == { x \in S : x > 0 }
    IN  IF pos = {} THEN NoCap ELSE CHOOSE x \in pos : \A y \in pos : x <= y

\* the cap when an absent max_articles_per_run stands for "no cap"
CapAbsentIsNone ==
    LeastPositive({max_items}
        \cup (IF max_articles_per_run = <<>> THEN {} ELSE {max_articles_per_run[1]}))

\* the cap when an absent max_articles_per_run stands for 120
CapAbsentIsDefault ==
    LeastPositive({max_items}
        \cup (IF max_articles_per_run = <<>> THEN {DefaultMaxArticlesPerRun}
              ELSE {max_articles_per_run[1]}))

\* C7 as stated: the number of candidates scraped never exceeds hardCap, the
\* minimum of the positive ones of maxArticlesPerRun and maxItems, where an
\* absent or zero term imposes no cap; with no positive term no cap is applied.
C7_AsStated ==
    CycleOver =>
        /\ hard_cap = CapAbsentIsNone
        /\ CapAbsentIsNone # NoCap => Len(to_scrape) <= CapAbsentIsNone
        /\ CapAbsentIsNone = NoCap => capped = merged

\* C7 (amended): the number of candidates scraped never exceeds hardCap, the
\* minimum of the positive ones of maxArticlesPerRun and maxItems, where
\* maxArticlesPerRun counts as 120 when the configuration does not set it and
\* a zero term imposes no cap for that term only; with no positive term no
\* candidate is cut.
C7_HardCap ==
    CycleOver =>
        /\ hard_cap = CapAbsentIsDefault
        /\ CapAbsentIsDefault # NoCap => Len(to_scrape) <= CapAbsentIsDefault
        /\ CapAbsentIsDefault = NoCap => capped = merged

\* max_articles_per_run is not set, max_items = 1 cuts two candidates to one
C7_Witness ==
    /\ cycle_pc = "scrape"
    /\ max_articles_per_run = <<>> /\ max_items = 1
    /\ Len(merged) >= 2 /\ Len(to_scrape) = 1

(***************************************************************************)
(* Properties of dedup_against_recent (SpecDedup).                         *)
(***************************************************************************)
\* the similarities of the candidate to the texts of the window
WindowSims == Sims(X)

\* entry i of the window is a maximum of the similarities
IsMaximum(i) ==
    \A j \in 1..Len(recent_texts) :
        WindowSims[j].dot * WindowSims[j].dot * WindowSims[i].row2
            <= WindowSims[i].dot * WindowSims[i].dot * WindowSims[j].row2

FirstMaximum ==
    CHOOSE i \in 1..Len(recent_texts) :
        IsMaximum(i) /\ \A j \in 1..(i - 1) : ~IsMaximum(j)

\* the maximum similarity is at least threshold = p/q
MaximumReaches ==
    LET m == WindowSims[FirstMaximum]
    IN  threshold[1] * threshold[1] * m.row2 * m.cand2
            <= m.dot * m.dot * threshold[2] * threshold[2]

\* C8: for a non-empty candidate text and a non-empty window the result has
\* is_duplicate = true exactly when the maximum similarity over the window is
\* at least the threshold, equality included; then duplicate_of_url is the
\* url at the first index that attains the maximum, otherwise it is None.
C8_DuplicateVerdict ==
    (dedup_pc = "returned" /\ candidate_text # <<>> /\ recent_texts # <<>>) =>
        /\ Len(X) = 1 + Len(recent_texts)
        /\ dedup_result.raised = ""
        /\ dedup_result.is_duplicate <=> MaximumReaches
        /\ dedup_result.is_duplicate
              => dedup_result.duplicate_of_url = recent_urls[FirstMaximum]
        /\ ~dedup_result.is_duplicate => dedup_result.duplicate_of_url = "None"

\* two window texts tie at similarity 1, which is exactly the threshold: the
\* candidate is a duplicate of the first one
C8_Witness ==
    /\ dedup_pc = "returned"
    /\ candidate_text # <<>> /\ Len(recent_texts) = 2
    /\ IsMaximum(1) /\ IsMaximum(2)
    /\ threshold = <<1, 1>>
    /\ WindowSims[1].dot * WindowSims[1].dot = WindowSims[1].row2 * WindowSims[1].cand2
    /\ dedup_result.is_duplicate
    /\ dedup_result.duplicate_of_url = recent_urls[1]

\* the candidate has no unigram and no bigram in common with a window text
SharesNoNgram ==
    \A i \in 1..Len(recent_texts) :
        TermSet(candidate_text, <<1, 2>>) \cap TermSet(recent_texts[i], <<1, 2>>) = {}

\* C9 as stated: a candidate that shares no n-gram with any window text is
\* never marked as duplicate, whatever the threshold.
C9_AsStated ==
    (dedup_pc = "returned" /\ SharesNoNgram) => ~dedup_result.is_duplicate

\* C9 (amended): a candidate that shares no n-gram with any window text is
\* never marked as duplicate, for every threshold greater than 0.
C9_DisjointNotDuplicate ==
    (dedup_pc = "returned" /\ SharesNoNgram /\ threshold[1] > 0)
        => ~dedup_result.is_duplicate

\* candidate and window texts all have n-grams, none in common; the two
\* window texts share theirs, so the vocabulary is not empty
C9_Witness ==
    /\ dedup_pc = "returned"
    /\ TermSet(candidate_text, <<1, 2>>) # {}
    /\ Len(recent_texts) = 2
    /\ TermSet(recent_texts[1], <<1, 2>>) \cap TermSet(recent_texts[2], <<1, 2>>) # {}
    /\ SharesNoNgram
    /\ threshold = <<1, 2>>
    /\ ~dedup_result.is_duplicate

(***************************************************************************)
(* Properties of upsert_file (SpecStore).                                  *)
(***************************************************************************)
\* the rows of the file as read_existing returns them
StoredRows == IF csv_file = <<>> THEN <<>> ELSE read_existing(csv_file)[1]

RowsOf(u) == { i \in 1..Len(StoredRows) : StoredRows[i].url = Str(u) }

\* C10: after any sequence of upserts into one source's file, the file holds
\* at most one row per url, exactly one for a url that was written, and that
\* row reads back as the values of the most recent write of the url read
\* back from a file.
C10_UpsertLastWins ==
    /\ \A i \in 1..Len(StoredRows) : StoredRows[i].url.s \in StoreUrls
    /\ \A u \in StoreUrls :
          /\ Cardinality(RowsOf(u)) <= 1
          /\ last_write[u].n = 0 => RowsOf(u) = {}
          /\ last_write[u].n > 0 =>
                /\ Cardinality(RowsOf(u)) = 1
                /\ \A i \in RowsOf(u) :
                      StoredRows[i].title = FromCsv(ToCsv(last_write[u].title))

\* a url written twice, last with another title than the other url's
C10_Witness ==
    /\ last_write["u1"].n = 2
    /\ last_write["u2"].n = 1
    /\ last_write["u1"].title = Str("t2")
    /\ last_write["u2"].title = Str("t1")
    /\ Cardinality(RowsOf("u1")) = 1

(***************************************************************************)
(* Properties of _strip_fragment_and_tracking_params (SpecUrl).            *)
(***************************************************************************)
\* the text of a URL between its first "?" and its fragment
QueryText(u) == After(Before(u, "#"), "?")

\* the parameters of a URL as name and value, those with an empty value too
Params(u) == [i \in 1..Len(Fields(QueryText(u))) |-> Field(Fields(QueryText(u))[i])]

\* the name starts with utm_ or is in the deny-set, whatever its case
TrackingName(k) ==
    \/ StartsWith(StrLower(k), "utm_")
    \/ StrLower(k) \in { "fbclid", "gclid", "msclkid", "mc_cid", "mc_eid",
                         "guccounter", "guce_referrer", "guce_referrer_sig",
                         "soc_src", "soc_trk", "cmpid" }

IsExampleUrl == norm_url = "https://x.com/a?utm_source=x&id=5#frag"

\* the url has a scheme and a host
IsAbsolute(u) == StartsWith(StrLower(u), "https://")

\* C12 as stated: normalization removes the fragment and every parameter
\* with a tracking name and keeps all other parameters with their values in
\* their order; the example normalizes to "https://x.com/a?id=5"; a
\* normalized URL normalizes to itself.
C12_AsStated ==
    /\ norm_pc \in {"once", "twice"} =>
          /\ ~Contains(norm_once, "#")
          /\ Params(norm_once)
                = SelectSeq(Params(norm_url), LAMBDA kv : ~TrackingName(kv[1]))
          /\ IsExampleUrl => norm_once = "https://x.com/a?id=5"
    /\ norm_pc = "twice" => norm_twice = norm_once

\* C12 (amended): for a URL with a scheme and a host, normalization removes
\* the fragment, every parameter with a tracking name and every parameter
\* with an empty value, keeps all other parameters with their values in
\* their order, and leaves the part before the query as it is but for the
\* case of the scheme; a URL without scheme or host is returned unchanged;
\* the example normalizes to "https://x.com/a?id=5"; a normalized URL
\* normalizes to itself.
C12_StripKeepsOthers ==
    /\ (norm_pc \in {"once", "twice"} /\ IsAbsolute(norm_url)) =>
          /\ ~Contains(norm_once, "#")
          /\ Params(norm_once)
                = SelectSeq(Params(norm_url),
                            LAMBDA kv : ~TrackingName(kv[1]) /\ kv[2] # "")
          /\ StrLower(Before(norm_once, "?")) = StrLower(Before(Before(norm_url, "#"), "?"))
          /\ IsExampleUrl => norm_once = "https://x.com/a?id=5"
    /\ (norm_pc \in {"once", "twice"} /\ ~IsAbsolute(norm_url)) => norm_once = norm_url
    /\ norm_pc = "twice" => norm_twice = norm_once

\* the example, normalized twice
C12_Witness ==
    /\ norm_pc = "twice"
    /\ IsExampleUrl
    /\ norm_once = "https://x.com/a?id=5"
    /\ norm_twice = "https://x.com/a?id=5"

(***************************************************************************)
(* Properties of link discovery (SpecDiscover).                            *)
(***************************************************************************)
\* discovery has returned for the page of the four hrefs, called as
\* run_pipeline calls it by default
ExampleReturned ==
    /\ disc_pc = "returned"
    /\ seed_url = "https://example.com/markets"
    /\ anchors = ExamplePage
    /\ options = DefaultOptions

ArticleLink ==
    DiscoveredLink("https://example.com" \o ArticleHref, "Fed raises rates again")

TopicLink == DiscoveredLink("https://example.com/topic/earnings", "Earnings")

\* the positions of link l in the returned list
PositionsOf(l) == { i \in 1..Len(links) : links[i] = l }

\* C11 as stated: of the hrefs "/markets", the date-path article,
\* "/topic/earnings" and "#" on the page "https://example.com/markets", only
\* the date-path article survives filtering, and it is returned above any
\* other surviving candidate.
C11_AsStated ==
    ExampleReturned =>
        /\ candidates = <<ArticleLink>>
        /\ links # <<>> /\ links[1] = ArticleLink

\* C11: of the four hrefs, "/markets" and "#" are removed by filtering (both
\* are the section root "/markets"); the date-path article and
\* "/topic/earnings" survive, and the article is returned first, above
\* "/topic/earnings".
C11_ArticleRankedFirst ==
    ExampleReturned =>
        /\ candidates = <<ArticleLink, TopicLink>>
        /\ links = <<ArticleLink, TopicLink>>
        /\ \A i \in PositionsOf(ArticleLink) : \A j \in PositionsOf(TopicLink) : i < j
        /\ _score_candidate(seed_url, ArticleLink.url, ArticleLink.title)
              > _score_candidate(seed_url, TopicLink.url, TopicLink.title)

\* discovery has returned for the page of the four hrefs, with the article
\* among the links
C11_Witness == ExampleReturned /\ scanned = 4 /\ PositionsOf(ArticleLink) # {}

(***************************************************************************)
(* Properties of the vectorizer's fit (SpecFit).                           *)
(***************************************************************************)
\* the n-grams of the corpus whose document frequency is at least min_df
Surviving ==
    { t \in DOMAIN DfCounter(corpus, fit_args.ngram_range) :
         DfCounter(corpus, fit_args.ngram_range)[t] >= fit_args.min_df }

\* the number of surviving terms before t in the order (document frequency
\* descending, term ascending)
RankInOrder(t) ==
    LET df == DfCounter(corpus, fit_args.ngram_range)
    IN  Cardinality({ u \in Surviving :
            \/ df[u] > df[t]
            \/ df[u] = df[t] /\ StrLess(u, t) })

\* the first max_features surviving terms, each with its rank as its column
VocabByRank ==
    [t \in { u \in Surviving : RankInOrder(u) < fit_args.max_features } |-> RankInOrder(t)]

\* C13: the vocabulary of a fit is exactly the first max_features terms,
\* among the n-grams with document frequency >= min_df, in the order
\* (document frequency descending, term ascending), each with its rank as
\* its column, in whatever order the terms were counted; a second fit of the
\* same corpus gives the same vocabulary and columns.
C13_FitDeterministic ==
    /\ fit_pc \in {"fitted", "refitted"} => first_fit.vocab = VocabByRank
    /\ fit_pc = "refitted" => second_fit = first_fit

\* a corpus fitted twice in which two surviving terms have the same document
\* frequency and max_features cuts the vocabulary short
C13_Witness ==
    /\ fit_pc = "refitted"
    /\ Cardinality(Surviving) > fit_args.max_features
    /\ \E s, t \in Surviving :
          /\ s # t
          /\ DfCounter(corpus, fit_args.ngram_range)[s]
                = DfCounter(corpus, fit_args.ngram_range)[t]
          /\ s \in DOMAIN second_fit.vocab
          /\ t \notin DOMAIN second_fit.vocab

(***************************************************************************)
(* The order of the cap and the second skip_urls removal (SpecCycle).      *)
(***************************************************************************)
\* the merged candidates whose url is not in skip_urls
FreshMerged == SelectSeq(merged, LAMBDA a : a.url \notin skip_urls)

\* C20: the second skip_urls removal takes place before the cap: no
\* candidate the cap selects among more than hard_cap merged candidates has
\* its url in skip_urls, and whenever at least
\* hard_cap merged candidates are outside skip_urls, exactly hard_cap
\* candidates are scraped.
C20_SkipBeforeCap ==
    (CycleOver /\ hard_cap # NoCap)
    => /\ Len(merged) > hard_cap
             => \A i \in 1..Len(capped) : capped[i].url \notin skip_urls
       /\ Len(FreshMerged) >= hard_cap => Len(to_scrape) = hard_cap

(***************************************************************************)
(* Properties of run_pipeline (SpecRun).                                   *)
(***************************************************************************)
\* the steps of one kind that failed
Failed(kind) == { f \in failures : f[1] = kind }

\* the run is over
RunOver == run_pc \in {"returned", "raised"}

\* the articles of a list, as a set
ArticlesOf(list) == { list[i] : i \in 1..Len(list) }

\* C14: a failure raised inside one article's scrape task (fetch, title or
\* body extraction) never leaves the cycle and never discards the results of
\* the other tasks: the run returns, and returns the articles the other tasks
\* produced.
C14_ScrapeFailureIsolated ==
    Failed("scrape") # {} =>
        /\ raised.by # "scrape"
        /\ RunOver =>
              /\ run_pc = "returned"
              /\ \A a \in ArticlesOf(scraped) :
                    PassesQuality(a, min_text_chars)
                       => a \in ArticlesOf(run_out)

\* C15: a failure of one source's feed pull or of one seed-page fetch or
\* discovery is swallowed: it does not end the cycle, and the candidates of
\* the other sources are gathered and scraped.
C15_SourceFailureSwallowed ==
    (Failed("feed") # {} \/ Failed("seed") # {}) =>
        /\ raised.by \notin {"feed", "seed"}
        /\ run_pc \in {"scrape", "dedup", "returned"}
              => \A i \in 1..Len(run_rss \o run_discovered) :
                    \E j \in 1..Len(run_merged) :
                        run_merged[j].url = (run_rss \o run_discovered)[i].url

\* C16: a missing required configuration key or an invalid source_group makes
\* the run raise before any feed was pulled and any seed page or article was
\* requested.
C16_ConfigErrorBeforeNetwork ==
    (run_pc = "raised" /\ raised.by \in {"config", "source_group"}) => net = {}

\* the text the summary of an article yields, "" when it has none
SummaryText(a) ==
    IF Truthy(a.summary)
    THEN normalize_text(extract_text_from_html_fragment(a.summary.s))
    ELSE ""

\* the candidate has a summary that passes the quality gate
HasUsableSummary(a) ==
    /\ SummaryText(a) # ""
    /\ Len(SummaryText(a)) >= min_text_chars

\* get_text gave nothing for the candidate, or a page judged a login or
\* paywall wall
FetchFailedOrWalled(a) ==
    /\ a.url \in DOMAIN fetched_of
    /\ \/ fetched_of[a.url].kind = "none"
       \/ /\ fetched_of[a.url].kind = "page"
          /\ fetched_of[a.url].paywall
          /\ Len(normalize_text(fetched_of[a.url].body)) < PaywallTextChars

\* C17: every article a cycle returns has a non-empty url and a non-empty
\* text whose trimmed length is at least the configured minimum; an article
\* whose fetch failed, or whose page was judged a login or paywall wall, and
\* that has no usable summary is not in the output.
C17_QualityGate ==
    run_pc = "returned" =>
        /\ \A a \in ArticlesOf(run_out) :
              /\ a.url # 0
              /\ a.text # None /\ a.text.s # ""
              /\ Len(Strip(a.text.s)) >= min_text_chars
        /\ \A c \in ArticlesOf(run_merged) :
              (FetchFailedOrWalled(c) /\ ~HasUsableSummary(c))
                 => \A a \in ArticlesOf(run_out) : a.url # c.url

\* a run returns an article scraped from its page and one that took its
\* summary after a failed fetch, and drops a candidate whose fetch failed and
\* that has no summary
C17_Witness ==
    /\ run_pc = "returned"
    /\ \E c \in ArticlesOf(run_merged) :
          /\ FetchFailedOrWalled(c) /\ ~HasUsableSummary(c)
          /\ \A a \in ArticlesOf(run_out) : a.url # c.url
    /\ \E c \in ArticlesOf(run_merged) :
          /\ FetchFailedOrWalled(c) /\ HasUsableSummary(c)
          /\ \E a \in ArticlesOf(run_out) : a.url = c.url /\ a.text = Str(SummaryText(c))
    /\ \E a \in ArticlesOf(run_out) :
          fetched_of[a.url].kind = "page" /\ a.text = Str(fetched_of[a.url].body)

(***************************************************************************)
(* Properties of DomainRateLimiter.acquire under fair scheduling           *)
(* (SpecFair) and across domains (Spec).                                   *)
(***************************************************************************)
\* task t is inside acquire and has not recorded its admission yet
InAcquire(t) == pc[t] \in {"lock", "rl_sleep"}

\* acquire has recorded the admission of task t and returned
AcquireReturned(t) == pc[t] \in {"pacing", "sem"}

\* C18: with max_requests_per_period >= 1 and finitely many calls of acquire,
\* every call eventually records its admission and returns under fair
\* scheduling, also when several callers contend for the same domain.
C18_AcquireReturns == \A t \in Tasks : InAcquire(t) ~> AcquireReturned(t)

\* two callers contend for one domain: one sleeps until the admission that
\* fills the window expires, the other has just entered acquire for a retry
C18_Witness ==
    \E t1, t2 \in Tasks :
        /\ t1 # t2
        /\ DomainOf(url[t1]) = DomainOf(url[t2])
        /\ pc[t1] = "rl_sleep" /\ sleep_left[t1] > 0
        /\ pc[t2] = "lock" /\ attempt[t2] > 1

\* the domain task t calls acquire for
OwnDomain(t) == DomainOf(url[t])

\* the window of domain d has room for one more admission at this instant
FreeCapacity(d) == HasRoom(PopExpired(domain_times[d]))

\* no caller of domain d is between its check and times.append(now)
NoneRecording(d) == \A u \in Tasks : OwnDomain(u) = d => pc[u] # "record"

\* the pass of task t through the lock lets it through to times.append(now)
Admitted(t) == RLCheck(t) /\ pc'[t] = "record" /\ NotHttp

\* the pass of task t through the lock sends it to asyncio.sleep
SentToSleep(t) == RLCheck(t) /\ pc'[t] = "rl_sleep" /\ NotHttp

\* C19: callers of acquire for different domains never block each other: a
\* caller that waits for a saturated domain sleeps without holding any lock,
\* and a caller of a domain with free capacity is admitted without sleeping,
\* whatever the state of the other domains and whoever waits on them.
C19_DomainsIndependent ==
    /\ \A t \in Tasks :
           pc[t] = "rl_sleep" => \A d \in Domains : domain_locks[d] # t
    /\ \A t \in Tasks :
           (pc[t] = "lock" /\ FreeCapacity(OwnDomain(t))
                           /\ NoneRecording(OwnDomain(t)))
           => (ENABLED Admitted(t)) /\ ~(ENABLED SentToSleep(t))

\* one caller sleeps on its saturated domain while a caller of another domain
\* stands at the lock of a domain that has free capacity
C19_Witness ==
    \E t1, t2 \in Tasks :
        /\ OwnDomain(t1) # OwnDomain(t2)
        /\ pc[t1] = "rl_sleep" /\ sleep_left[t1] > 0
        /\ ~FreeCapacity(OwnDomain(t1))
        /\ pc[t2] = "lock" /\ FreeCapacity(OwnDomain(t2))

(***************************************************************************)
(* Properties of the attempts of get_text (Spec).                          *)
(***************************************************************************)
\* the admissions the limiter recorded for the observed task t, against
\* its GETs, at every position of an attempt
Counted(t) ==
    /\ pc[t] \in {"lock", "rl_sleep", "record"} => admissions[t] = gets[t]
    /\ pc[t] \in {"pacing", "sem"} => admissions[t] = gets[t] + 1
    /\ pc[t] \in {"get", "backoff", "done"} => admissions[t] = gets[t]

\* what a step of task t comes after: the admission is recorded by the pass
\* through acquire, the pacing sleep follows the admission, the semaphore
\* follows the pacing sleep (the admission, when no pacing is configured),
\* and the GET is issued by the task that takes the slot, one admission
\* ahead of its GETs
StepOrder(t) ==
    /\ admissions'[t] # admissions[t]
          => pc[t] = "record" /\ admissions'[t] = admissions[t] + 1
    /\ (pc'[t] = "pacing" /\ pc[t] # "pacing")
          => pc[t] = "record" /\ human_delay # <<>>
    /\ (pc'[t] = "sem" /\ pc[t] # "sem")
          => pc[t] = (IF human_delay = <<>> THEN "record" ELSE "pacing")
    /\ gets'[t] # gets[t]
          => /\ pc[t] = "sem" /\ pc'[t] = "get"
             /\ gets'[t] = gets[t] + 1
             /\ admissions[t] = gets'[t]

\* C25: every attempt of every fetch performs, in this order, one
\* rate-limiter admission for the domain of the URL, the optional pacing
\* sleep, the acquisition of a semaphore slot, and only then the GET; no GET
\* is issued without a fresh admission since the previous GET of the task,
\* so a fetch with k attempts consumes exactly k admissions.
C25_AttemptOrder == [][\A t \in Observed : StepOrder(t) /\ Counted(t)']_vars

\* a retry: the second GET of a task is in flight after its second admission
\* and its second pacing sleep
C25_Witness ==
    \E t \in Observed :
        /\ pc[t] = "get" /\ attempt[t] = 2 /\ human_delay # <<>>
        /\ gets[t] = 2 /\ admissions[t] = 2

\* the tasks that sleep their backoff
InBackoff == { t \in Tasks : pc[t] = "backoff" }

\* C26: after a transient failure with attempts remaining, a fetch task
\* performs its whole backoff sleep while still holding its semaphore slot;
\* the slot is released only when the sleep ends, so max_in_flight_requests
\* tasks in backoff keep every other fetch from starting a GET until one of
\* them wakes.
C26_BackoffHoldsSlot ==
    /\ sem = MaxInFlight - Cardinality(InFlight \cup InBackoff)
    /\ Cardinality(InBackoff) = MaxInFlight
          => \A u \in Tasks : ~ENABLED (SemAcquire(u) /\ NotHttp)

\* every slot is held by a task whose backoff sleep still runs, while
\* another task has its admission and waits for a slot
C26_Witness ==
    /\ Cardinality(InBackoff) = MaxInFlight
    /\ \A t \in InBackoff : sleep_left[t] > 0
    /\ \E u \in Tasks : pc[u] = "sem"

(***************************************************************************)
(* Properties of dedup_against_recent on a window of one text (SpecDedup). *)
(***************************************************************************)
\* the n-grams the candidate has in common with the window text i
SharedNgrams(i) ==
    TermSet(candidate_text, DedupNgramRange)
        \cap TermSet(recent_texts[i], DedupNgramRange)

\* a similarity of exactly 1
IsOne(sim) == sim.dot > 0 /\ sim.dot * sim.dot = sim.row2 * sim.cand2

\* C28: the model is fit with min_df = 2 on [candidate] + recent_texts, so a
\* window of exactly one text restricts the vocabulary to the n-grams the
\* two texts share: if they share exactly one n-gram, the call returns
\* best_similarity = 1 and is_duplicate = true for every threshold <= 1,
\* however different the rest of the two texts is.
C28_OneSharedNgram ==
    (/\ dedup_pc = "returned"
     /\ Len(recent_texts) = 1
     /\ Cardinality(SharedNgrams(1)) = 1
     /\ threshold[1] <= threshold[2])
    => /\ DOMAIN model.vocab = SharedNgrams(1)
       /\ IsOne(dedup_result.best_similarity)
       /\ dedup_result.is_duplicate
       /\ dedup_result.duplicate_of_url = recent_urls[1]

\* "ab cd" against the window <<"ab ef">>: the two texts share "ab" and
\* nothing else, and the threshold is 1
C28_Witness ==
    /\ dedup_pc = "returned"
    /\ Len(recent_texts) = 1
    /\ Cardinality(SharedNgrams(1)) = 1
    /\ Cardinality(TermSet(candidate_text, DedupNgramRange)) = 3
    /\ Cardinality(TermSet(recent_texts[1], DedupNgramRange)) = 3
    /\ threshold = <<1, 1>>
    /\ dedup_result.is_duplicate

\* ---- the order of the scraped list (pipeline.py lines 268-285) ----

\* the place of a scraped article in the list given to the scrape stage
\* (the URLs of that list are distinct, lines 209-220)
PlaceInMerged(a) == Least({ i \in 1..Len(run_merged) : run_merged[i].url = a.url })

InInputOrder(articles) ==
    \A i, j \in 1..Len(articles) :
        i < j => PlaceInMerged(articles[i]) < PlaceInMerged(articles[j])

\* C21: the list of scraped articles handed to the enrichment stage is in
\* the order of the capped candidate list given to the scrape stage,
\* whatever the order in which the scrape tasks complete
C21_ScrapedInInputOrder == run_pc = "dedup" => InInputOrder(scraped)

\* ---- the candidates that are scraped (pipeline.py lines 127-137, 209-220, 260-261) ----

\* C22: every candidate scraped in a cycle has a non-empty URL that is not
\* in skip_urls, and no two candidates scraped in the same cycle have the
\* same URL, whichever of the two streams they came from
C22_ScrapedUrls ==
    cycle_pc = "scrape" =>
        /\ \A i \in 1..Len(to_scrape) :
              /\ to_scrape[i].url # 0
              /\ to_scrape[i].url \notin skip_urls
        /\ \A i, j \in 1..Len(to_scrape) :
              to_scrape[i].url = to_scrape[j].url => i = j

\* a feed entry without a link, a feed stub and a discovered stub; the
\* discovered url is in skip_urls, and only the feed stub is scraped
C22_Witness ==
    /\ cycle_pc = "scrape"
    /\ rss_articles = <<Stub("b", 0), Stub("a", 1)>>
    /\ discovered_articles = <<Stub("b", 2)>>
    /\ skip_urls = {2}
    /\ to_scrape = <<Stub("a", 1)>>

(***************************************************************************)
(* Properties of dedup_against_recent on a candidate that the window       *)
(* already holds (SpecDedup).                                              *)
(***************************************************************************)
\* the entries of the window that hold the candidate's own url and text
OwnEntries ==
    { i \in 1..Len(recent_texts) :
        recent_urls[i] = candidate_url /\ recent_texts[i] = candidate_text }

\* the call returns what it would return for any other candidate_url
UrlIgnored ==
    \A v \in CandidateUrls :
        dedup_result = dedup_against_recent(candidate_text, v, recent_texts,
                                            recent_urls, threshold)

\* the entries before the candidate's own whose similarity is 1 as well
EarlierTwins ==
    { j \in 1..(Least(OwnEntries) - 1) :
        j \in DOMAIN WindowSims /\ IsOne(WindowSims[j]) }

UrlsOfFile(file) ==
    IF file = <<>> THEN {}
    ELSE { read_existing(file)[1][i].url : i \in 1..Len(file[1]) }

\* the urls in the group a cycle upserts
UrlsOfGroup(c) == { up_group[c][i].url : i \in 1..Len(up_group[c]) }

\* C30: when two cycles that run at the same time with persist set upsert
\* into the file of the same source, no row is lost: after both upserts the
\* file holds a row for every url written by either cycle and for every url
\* it held before.
C30_NoRowLost ==
    (\A c \in Cycles : up_pc[c] = "done") =>
        UrlsOfFile(file_before) \cup UNION { UrlsOfGroup(c) : c \in Cycles }
            \subseteq UrlsOfFile(shared_file)

(***************************************************************************)
(* Properties of the window a polling loop passes to a cycle (SpecGui).    *)
(***************************************************************************)
\* two lists of the same length whose entries at each index belong to one
\* article
Aligned(texts, urls) ==
    /\ Len(texts) = Len(urls)
    /\ \A i \in 1..Len(texts) : texts[i] = TextOfUrl(urls[i])

\* C27: the recent_texts and recent_urls that a polling loop passes to a
\* cycle have the same length and are index-aligned, also when
\* _drain_queue appends to and truncates the rolling window between the
\* loop's two snapshot calls.
C27_SnapshotsAligned == poll_pc = "cycle" => Aligned(snap_texts, snap_urls)

(***************************************************************************)
(* Properties of the dedup loop and of the persistence (SpecLoop).         *)
(***************************************************************************)
\* the window with which the cycle started its loop
WindowAtStart ==
    WindowOf(persist, given_texts, given_urls, dir_before, CompareWindow)

\* the verdict of article i against the window with which the cycle started
VerdictAtStart(i) ==
    dedup_against_recent(enriched[i].text, enriched[i].url, TextsOf(WindowAtStart),
                         UrlsOf(WindowAtStart), similarity_threshold)

\* C23: within one cycle the recent window is fixed before the first verdict
\* and is never extended with the cycle's own articles: every article is
\* compared against the same window, so two articles of the cycle with the
\* same text that match nothing in the window are both returned with
\* is_duplicate = false.
C23_WindowFixed ==
    loop_pc \in {"loop", "returned"} =>
        /\ use_recent_texts = TextsOf(WindowAtStart)
        /\ use_recent_urls = UrlsOf(WindowAtStart)
        /\ dedup_pc # "idle" =>
              recent_texts = use_recent_texts /\ recent_urls = use_recent_urls
        /\ \A i \in 1..Len(deduped) :
              deduped[i] = Marked(enriched[i], VerdictAtStart(i))
        /\ \A i, j \in 1..Len(deduped) :
              (enriched[i].text = enriched[j].text /\ ~deduped[i].is_duplicate)
                  => ~deduped[j].is_duplicate
        /\ loop_pc = "returned" => loop_out = deduped /\ Len(deduped) = Len(enriched)

\* two articles with the text "ab cd" against a window that holds "ef x 9"
\* only: both are returned unmarked
C23_Witness ==
    /\ loop_pc = "returned"
    /\ Len(loop_out) = 2
    /\ loop_out[1].text = AbCd /\ loop_out[2].text = AbCd
    /\ use_recent_texts = <<EfX9>>
    /\ ~loop_out[1].is_duplicate /\ ~loop_out[2].is_duplicate

\* C24: when persist is not set, a cycle neither writes nor reads the
\* per-source storage: storage is unchanged, no window is derived from it,
\* and the full dedup-marked list, duplicates included and marked rather
\* than removed, is still returned.
C24_NoPersistNoStorage ==
    ~persist =>
        /\ files_read = {} /\ files_written = {}
        /\ data_dir = dir_before
        /\ loop_pc \in {"loop", "returned"} =>
              use_recent_texts = given_texts /\ use_recent_urls = given_urls
        /\ loop_pc = "returned" =>
              /\ Len(loop_out) = Len(enriched)
              /\ \A i \in 1..Len(loop_out) :
                    loop_out[i] =
                        Marked(enriched[i],
                               dedup_against_recent(enriched[i].text, enriched[i].url,
                                                    given_texts, given_urls,
                                                    similarity_threshold))

\* persist is not set, the storage holds files, the window passed holds
\* "ef x 9" of u4 and "ab ef" of u5, the threshold is 9/10: "ab ef" is
\* returned marked as a duplicate of u5, "ab cd" is returned unmarked
C24_Witness ==
    /\ loop_pc = "returned"
    /\ ~persist
    /\ data_dir["s1"] # <<>> /\ data_dir["s2"] # <<>>
    /\ given_texts = <<EfX9, AbEf>>
    /\ Len(loop_out) = 2
    /\ loop_out[1].is_duplicate /\ loop_out[1].duplicate_of_url = "u5"
    /\ loop_out[2].text = AbCd /\ ~loop_out[2].is_duplicate

====
